---- MODULE Spec2Model ----
(***************************************************************************)
(* Procurement workflow of next_custom_app: chain validation, the quantity *)
(* ledger, the RFQ/PO quantity controller and the document hooks           *)
(* (validate, on_submit, before_cancel, on_cancel) as a state machine over *)
(* the host's document store.                                              *)
(***************************************************************************)
EXTENDS Integers, Sequences, FiniteSets, TLC

VARIABLES docs, flows, rules, quotations, requests, last

vars == <<docs, flows, rules, quotations, requests, last>>

(***************************************************************************)
(* Bounds of the model                                                     *)
(***************************************************************************)
MaxQty == 2

MaxLines == 2

MaxPOLines == 1

MaxSteps == 2

MaxAmount == 2

MaxRate == 2

(***************************************************************************)
(* The universe of documents, items, suppliers and flows                   *)
(***************************************************************************)
PROCUREMENT_DOCTYPES ==
  <<"Material Request", "Purchase Requisition", "Request for Quotation",
    "Supplier Quotation", "Purchase Order", "Purchase Receipt", "Purchase Invoice">>

DoctypeSet == {PROCUREMENT_DOCTYPES[i] : i \in 1..Len(PROCUREMENT_DOCTYPES)}

Names == {"MR-1", "PR-1", "RFQ-1", "RFQ-2", "SQ-1", "SQ-2", "PO-1", "PO-2"}

DoctypeOf(n) ==
  CASE n = "MR-1" -> "Material Request"
    [] n = "PR-1" -> "Purchase Requisition"
    [] n \in {"RFQ-1", "RFQ-2"} -> "Request for Quotation"
    [] n \in {"SQ-1", "SQ-2"} -> "Supplier Quotation"
    [] n \in {"PO-1", "PO-2"} -> "Purchase Order"
    [] OTHER -> ""

RfqNames == {n \in Names : DoctypeOf(n) = "Request for Quotation"}

Items == {"ITEM-1", "ITEM-2"}

Suppliers == {"SUP-1", "SUP-2", "SUP-3"}

FlowNames == {"FLOW-1", "FLOW-2"}

(***************************************************************************)
(* Records of the host store                                               *)
(***************************************************************************)
Line(i, q) == [item_code |-> i, qty |-> q, ordered_qty |-> 0, remaining_qty |-> 0]

NoDoc ==
  [exists |-> FALSE, docstatus |-> 0,
   procurement_source_doctype |-> "", procurement_source_name |-> "",
   supplier |-> "", suppliers |-> {}, items |-> <<>>, procurement_links |-> <<>>]

NewDoc(sdt, sn, sup, sups, its) ==
  [exists |-> TRUE, docstatus |-> 0,
   procurement_source_doctype |-> sdt, procurement_source_name |-> sn,
   supplier |-> sup, suppliers |-> sups, items |-> its, procurement_links |-> <<>>]

Step(no, dt, rs) == [step_no |-> no, doctype_name |-> dt, requires_source |-> rs]

NoFlow == [exists |-> FALSE, is_active |-> FALSE, flow_steps |-> <<>>]

StandardSteps ==
  [i \in 1..Len(PROCUREMENT_DOCTYPES) |-> Step(i, PROCUREMENT_DOCTYPES[i], i > 1)]

(***************************************************************************)
(* Host store: get_doc and get_all                                         *)
(***************************************************************************)
DocExists(store, dt, n) == n \in Names /\ DoctypeOf(n) = dt /\ store[n].exists

RECURSIVE SumSeq(_)
SumSeq(s) == IF s = <<>> THEN 0 ELSE Head(s) + SumSeq(Tail(s))

RECURSIVE SumOver(_, _)
SumOver(S, f) ==
  IF S = {} THEN 0
  ELSE LET x == CHOOSE y \in S : TRUE IN f[x] + SumOver(S \ {x}, f)

\* quantity of item i summed over all lines of a line list
ItemQty(its, i) ==
  SumSeq([k \in 1..Len(its) |-> IF its[k].item_code = i THEN its[k].qty ELSE 0])

\* quantity of item i over the documents S of a store
QtyOver(store, S, i) == SumOver(S, [n \in S |-> ItemQty(store[n].items, i)])

\* index of the first line with item code i, 0 when there is none
FirstLine(its, i) ==
  IF \E k \in 1..Len(its) : its[k].item_code = i
  THEN CHOOSE k \in 1..Len(its) :
         /\ its[k].item_code = i
         /\ \A j \in 1..(k - 1) : its[j].item_code # i
  ELSE 0

ItemCodes(its) == {its[k].item_code : k \in 1..Len(its)}

get_items_field_name(dt) == IF dt \in DoctypeSet THEN "items" ELSE ""

(***************************************************************************)
(* Procurement Flow configuration                                          *)
(***************************************************************************)
ActiveFlows(fl) == {f \in FlowNames : fl[f].exists /\ fl[f].is_active}

\* the lookup without the is_active filter
get_active_flow_AnyFlow(fl) ==
  IF \E f \in FlowNames : fl[f].exists
  THEN CHOOSE f \in FlowNames : fl[f].exists
  ELSE ""

\* "" stands for None
get_active_flow(fl) ==
  IF ActiveFlows(fl) = {} THEN "" ELSE CHOOSE f \in ActiveFlows(fl) : TRUE

RECURSIVE InsertStep(_, _)
InsertStep(s, r) ==
  IF s = <<>> THEN <<r>>
  ELSE IF Head(s).step_no <= r.step_no
       THEN <<Head(s)>> \o InsertStep(Tail(s), r)
       ELSE <<r>> \o s

RECURSIVE SortSteps(_)
SortSteps(rows) ==
  IF rows = <<>> THEN <<>>
  ELSE InsertStep(SortSteps(SubSeq(rows, 1, Len(rows) - 1)), rows[Len(rows)])

get_flow_steps(fl, flow_name) == SortSteps(fl[flow_name].flow_steps)

\* index into get_flow_steps of the step of a doctype, 0 for None
CurrentStepIndex(fl, dt, flow_name) ==
  LET steps == get_flow_steps(fl, flow_name)
  IN IF \E i \in 1..Len(steps) : steps[i].doctype_name = dt
     THEN CHOOSE i \in 1..Len(steps) :
            /\ steps[i].doctype_name = dt
            /\ \A j \in 1..(i - 1) : steps[j].doctype_name # dt
     ELSE 0

\* index of the step returned by get_previous_step, 0 for None
PreviousStepIndex(fl, dt, flow_name) ==
  LET steps == get_flow_steps(fl, flow_name)
  IN IF \E i \in 2..Len(steps) : steps[i].doctype_name = dt
     THEN (CHOOSE i \in 2..Len(steps) :
             /\ steps[i].doctype_name = dt
             /\ \A j \in 2..(i - 1) : steps[j].doctype_name # dt) - 1
     ELSE 0

\* validators return the title of the error they throw, "" when they pass
\* the step-order check without the rejection of a partial source pair
validate_step_order_WithoutPairCheck(fl, dt, doc) ==
  LET active_flow == get_active_flow(fl)
      has_source_doctype == doc.procurement_source_doctype # ""
      has_source_name == doc.procurement_source_name # ""
  IN IF active_flow = "" THEN ""
     ELSE LET steps == get_flow_steps(fl, active_flow)
              cur == CurrentStepIndex(fl, dt, active_flow)
              prev == PreviousStepIndex(fl, dt, active_flow)
          IN IF cur = 0 THEN ""
             ELSE IF ~steps[cur].requires_source THEN ""
             ELSE IF ~has_source_doctype /\ ~has_source_name THEN ""
             ELSE IF prev = 0 THEN ""
             ELSE IF doc.procurement_source_doctype # steps[prev].doctype_name
                  THEN "Invalid Source Document"
             ELSE ""

\* "" when the check passes
validate_step_order(fl, dt, doc) ==
  LET active_flow == get_active_flow(fl)
      has_source_doctype == doc.procurement_source_doctype # ""
      has_source_name == doc.procurement_source_name # ""
  IN IF active_flow = "" THEN ""
     ELSE LET steps == get_flow_steps(fl, active_flow)
              cur == CurrentStepIndex(fl, dt, active_flow)
              prev == PreviousStepIndex(fl, dt, active_flow)
          IN IF cur = 0 THEN ""
             ELSE IF ~steps[cur].requires_source THEN ""
             ELSE IF ~has_source_doctype /\ ~has_source_name THEN ""
             ELSE IF has_source_doctype # has_source_name THEN "Both Or Neither"
             ELSE IF prev = 0 THEN ""
             ELSE IF doc.procurement_source_doctype # steps[prev].doctype_name
                  THEN "Invalid Source Document"
             ELSE ""

(***************************************************************************)
(* Procurement Flow controller                                             *)
(***************************************************************************)
StepNumbers(flow) == [r \in 1..Len(flow.flow_steps) |-> flow.flow_steps[r].step_no]

validate_step_numbers(flow) ==
  LET step_numbers == StepNumbers(flow)
      n == Len(step_numbers)
      as_set == {step_numbers[r] : r \in 1..n}
  IN IF n # Cardinality(as_set) THEN "Step numbers must be unique"
     ELSE IF as_set # 1..n THEN "Step numbers must be sequential starting from 1"
     ELSE ""

\* the check made for new flows only
validate_only_one_active_flow_OnlyWhenNew(fl, name, flow) ==
  IF /\ flow.is_active /\ ~fl[name].exists
     /\ \E f \in FlowNames : f # name /\ fl[f].exists /\ fl[f].is_active
  THEN "Another active flow exists"
  ELSE ""

validate_only_one_active_flow(fl, name, flow) ==
  IF flow.is_active /\ \E f \in FlowNames : f # name /\ fl[f].exists /\ fl[f].is_active
  THEN "Another active flow exists"
  ELSE ""

\* i == 0 of the enumeration is the first row of the child table
validate_step_sequence(flow) ==
  IF \E i \in 1..Len(flow.flow_steps) : flow.flow_steps[i].requires_source /\ i = 1
  THEN "First step cannot require a source"
  ELSE ""

ProcurementFlow_validate(fl, name, flow) ==
  LET e1 == validate_step_numbers(flow)
      e2 == validate_only_one_active_flow(fl, name, flow)
      e3 == validate_step_sequence(flow)
  IN IF e1 # "" THEN e1 ELSE IF e2 # "" THEN e2 ELSE e3

(***************************************************************************)
(* Quantity ledger                                                         *)
(***************************************************************************)
\* frappe.get_all(target_doctype, source filters, docstatus != 2), less exclude_doc
ChildDocs_IncludingCancelled(store, source_doctype, source_name, target_doctype, exclude_doc) ==
  {n \in Names :
     /\ DoctypeOf(n) = target_doctype
     /\ store[n].exists
     /\ store[n].procurement_source_doctype = source_doctype
     /\ store[n].procurement_source_name = source_name
     /\ ~(exclude_doc # "" /\ n = exclude_doc)}

ChildDocs(store, source_doctype, source_name, target_doctype, exclude_doc) ==
  {n \in Names :
     /\ DoctypeOf(n) = target_doctype
     /\ store[n].exists
     /\ store[n].docstatus # 2
     /\ store[n].procurement_source_doctype = source_doctype
     /\ store[n].procurement_source_name = source_name
     /\ ~(exclude_doc # "" /\ n = exclude_doc)}

\* consumed[item_code]["total"]
get_consumed_quantities_detailed(store, source_doctype, source_name, target_doctype, exclude_doc) ==
  IF get_items_field_name(target_doctype) = "" THEN [i \in Items |-> 0]
  ELSE LET child_docs == ChildDocs(store, source_doctype, source_name, target_doctype, exclude_doc)
       IN [i \in Items |-> SumOver(child_docs, [n \in child_docs |-> ItemQty(store[n].items, i)])]

\* the supplier check testing only that the RFQ lists any supplier
validate_supplier_in_rfq_AnyListed(store, doc) ==
  IF doc.supplier = "" THEN ""
  ELSE IF ~DocExists(store, "Request for Quotation", doc.procurement_source_name) THEN ""
  ELSE IF store[doc.procurement_source_name].suppliers = {}
       THEN "Invalid Supplier for RFQ"
  ELSE ""

validate_supplier_in_rfq(store, doc) ==
  IF doc.supplier = "" THEN ""
  ELSE IF ~DocExists(store, "Request for Quotation", doc.procurement_source_name) THEN ""
  ELSE IF doc.supplier \notin store[doc.procurement_source_name].suppliers
       THEN "Invalid Supplier for RFQ"
  ELSE ""

\* the document quantities are tracked against: [doctype, name]
TrackingSource(store, dt, doc) ==
  LET sq_doc == store[doc.procurement_source_name]
      reroot == /\ dt = "Purchase Order"
                /\ doc.procurement_source_doctype = "Supplier Quotation"
                /\ sq_doc.procurement_source_doctype = "Request for Quotation"
                /\ sq_doc.procurement_source_name # ""
  IN IF reroot
     THEN [doctype |-> "Request for Quotation", name |-> sq_doc.procurement_source_name]
     ELSE [doctype |-> doc.procurement_source_doctype, name |-> doc.procurement_source_name]

\* consumed_breakdown of validate_quantity_limits, totals per item code
\* the order in which a query returns its rows when none is asked for
NameOrder == <<"MR-1", "PR-1", "RFQ-1", "RFQ-2", "SQ-1", "SQ-2", "PO-1", "PO-2">>

\* consumed[item_code]["documents"]: an entry for each line of each child
RECURSIVE DocumentBreakdown(_, _, _)
DocumentBreakdown(store, child_docs, i) ==
  IF child_docs = <<>> THEN <<>>
  ELSE LET its == store[Head(child_docs)].items
       IN [k \in 1..Len(SelectSeq(its, LAMBDA l : l.item_code = i)) |->
             [name |-> Head(child_docs),
              qty |-> SelectSeq(its, LAMBDA l : l.item_code = i)[k].qty]]
          \o DocumentBreakdown(store, Tail(child_docs), i)

ConsumedDocuments(store, source_doctype, source_name, target_doctype, exclude_doc, i) ==
  IF get_items_field_name(target_doctype) = "" THEN <<>>
  ELSE DocumentBreakdown(store,
         SelectSeq(NameOrder,
                   LAMBDA n : n \in ChildDocs(store, source_doctype, source_name,
                                              target_doctype, exclude_doc)),
         i)

\* the loops of get_consumed_quantities: consumed[item_code] grows line by
\* line, child by child
RECURSIVE AddLines(_, _)
AddLines(consumed, its) ==
  IF its = <<>> THEN consumed
  ELSE AddLines([consumed EXCEPT ![Head(its).item_code] = @ + Head(its).qty], Tail(its))

RECURSIVE ConsumedLoop(_, _, _, _)
ConsumedLoop(store, child_docs, exclude_doc, consumed) ==
  IF child_docs = <<>> THEN consumed
  ELSE IF exclude_doc # "" /\ Head(child_docs) = exclude_doc
  THEN ConsumedLoop(store, Tail(child_docs), exclude_doc, consumed)
  ELSE ConsumedLoop(store, Tail(child_docs), exclude_doc,
                    AddLines(consumed, store[Head(child_docs)].items))

get_consumed_quantities(store, source_doctype, source_name, target_doctype, exclude_doc) ==
  IF get_items_field_name(target_doctype) = "" THEN [i \in Items |-> 0]
  ELSE ConsumedLoop(store,
         SelectSeq(NameOrder,
                   LAMBDA n : n \in ChildDocs(store, source_doctype, source_name,
                                              target_doctype, "")),
         exclude_doc, [i \in Items |-> 0])

\* available[item_code] is written line by line: the last line of an item
\* of the source stays
LastLine(its, i) ==
  CHOOSE k \in 1..Len(its) :
    /\ its[k].item_code = i
    /\ \A j \in (k + 1)..Len(its) : its[j].item_code # i

get_available_quantities(store, source_doctype, source_name, target_doctype) ==
  IF ~DocExists(store, source_doctype, source_name)
  THEN [error |-> "Does Not Exist", available |-> <<>>]
  ELSE LET source_items == store[source_name].items
           consumed_quantities == get_consumed_quantities(store, source_doctype, source_name,
                                                          target_doctype, "")
       IN [error |-> "",
           available |->
             [i \in {source_items[k].item_code : k \in 1..Len(source_items)} |->
                [source_qty |-> source_items[LastLine(source_items, i)].qty,
                 consumed_qty |-> consumed_quantities[i],
                 available_qty |-> source_items[LastLine(source_items, i)].qty
                                     - consumed_quantities[i]]]]

ConsumedBreakdown(store, name, dt, doc, is_new) ==
  LET t == TrackingSource(store, dt, doc)
      exclude_current == IF is_new THEN "" ELSE name
  IN get_consumed_quantities_detailed(store, t.doctype, t.name, dt, exclude_current)

\* the body of the loop over target_items, for one line
CheckLine(source_items, consumed, target_item) ==
  LET k == FirstLine(source_items, target_item.item_code)
  IN IF k = 0 THEN "Invalid Item"
     ELSE IF target_item.qty > source_items[k].qty - consumed[target_item.item_code]
          THEN "Quantity Exceeded"
     ELSE ""

\* the error of the first line that fails, "" when every line passes
RECURSIVE CheckLines(_, _, _)
CheckLines(source_items, consumed, target_items) ==
  IF target_items = <<>> THEN ""
  ELSE LET e == CheckLine(source_items, consumed, Head(target_items))
       IN IF e # "" THEN e ELSE CheckLines(source_items, consumed, Tail(target_items))

\* the quantity check without the special case of the Request for Quotation
validate_quantity_limits_CheckingRfq(store, name, dt, doc, is_new) ==
  IF doc.procurement_source_doctype = "" \/ doc.procurement_source_name = "" THEN ""
  ELSE IF /\ dt = "Supplier Quotation"
          /\ doc.procurement_source_doctype = "Request for Quotation"
          /\ validate_supplier_in_rfq(store, doc) # ""
       THEN validate_supplier_in_rfq(store, doc)
  ELSE IF ~DocExists(store, doc.procurement_source_doctype, doc.procurement_source_name)
       THEN "Does Not Exist"
  ELSE LET t == TrackingSource(store, dt, doc)
       IN IF ~DocExists(store, t.doctype, t.name) THEN "Does Not Exist"
          ELSE CheckLines(store[t.name].items,
                          ConsumedBreakdown(store, name, dt, doc, is_new), doc.items)

validate_quantity_limits(store, name, dt, doc, is_new) ==
  IF doc.procurement_source_doctype = "" \/ doc.procurement_source_name = "" THEN ""
  ELSE IF dt = "Request for Quotation" THEN ""
  ELSE IF /\ dt = "Supplier Quotation"
          /\ doc.procurement_source_doctype = "Request for Quotation"
          /\ validate_supplier_in_rfq(store, doc) # ""
       THEN validate_supplier_in_rfq(store, doc)
  ELSE IF ~DocExists(store, doc.procurement_source_doctype, doc.procurement_source_name)
       THEN "Does Not Exist"
  ELSE LET t == TrackingSource(store, dt, doc)
       IN IF ~DocExists(store, t.doctype, t.name) THEN "Does Not Exist"
          ELSE CheckLines(store[t.name].items,
                          ConsumedBreakdown(store, name, dt, doc, is_new), doc.items)

\* the item check skipped for the Request for Quotation, as the quantity check is
validate_items_against_source_SkippingRfq(store, dt, doc) ==
  IF dt = "Request for Quotation" THEN ""
  ELSE IF doc.procurement_source_doctype = "" \/ doc.procurement_source_name = "" THEN ""
  ELSE IF ~DocExists(store, doc.procurement_source_doctype, doc.procurement_source_name)
       THEN "Does Not Exist"
  ELSE IF ~(ItemCodes(doc.items) \subseteq ItemCodes(store[doc.procurement_source_name].items))
       THEN "Item Not In Source"
  ELSE ""

validate_items_against_source(store, dt, doc) ==
  IF doc.procurement_source_doctype = "" \/ doc.procurement_source_name = "" THEN ""
  ELSE IF ~DocExists(store, doc.procurement_source_doctype, doc.procurement_source_name)
       THEN "Does Not Exist"
  ELSE IF ~(ItemCodes(doc.items) \subseteq ItemCodes(store[doc.procurement_source_name].items))
       THEN "Item Not In Source"
  ELSE ""

validate_procurement_document(store, fl, name, dt, doc, is_new) ==
  LET e1 == validate_step_order(fl, dt, doc)
      e2 == validate_quantity_limits(store, name, dt, doc, is_new)
      e3 == validate_items_against_source(store, dt, doc)
  IN IF e1 # "" THEN e1 ELSE IF e2 # "" THEN e2 ELSE e3

(***************************************************************************)
(* RFQ/PO quantity controller                                              *)
(***************************************************************************)
\* the Supplier Quotation -> Request for Quotation hop shared by the
\* controller's functions: the RFQ name, "" when the function returns early
RfqOfPurchaseOrder(store, dt, doc) ==
  IF dt # "Purchase Order" THEN ""
  ELSE IF doc.procurement_source_doctype # "Supplier Quotation" THEN ""
  ELSE IF doc.procurement_source_name = "" THEN ""
  ELSE IF ~DocExists(store, "Supplier Quotation", doc.procurement_source_name) THEN ""
  ELSE LET sq == store[doc.procurement_source_name]
       IN IF sq.procurement_source_doctype # "Request for Quotation"
             \/ sq.procurement_source_name = "" THEN ""
          ELSE IF ~DocExists(store, "Request for Quotation", sq.procurement_source_name) THEN ""
          ELSE sq.procurement_source_name

\* available_qty computed from the RFQ line's quantity alone, the quantity
\* already ordered left out
PoAvailableQty_IgnoringOrdered(store, name, rfq_item, po_item, is_new) ==
  LET rfq_total_qty == rfq_item.qty
      ko == IF is_new \/ ~DocExists(store, "Purchase Order", name) THEN 0
            ELSE FirstLine(store[name].items, po_item.item_code)
      existing_po_qty == IF ko = 0 THEN 0 ELSE store[name].items[ko].qty
  IN rfq_total_qty + existing_po_qty

\* available_qty of validate_po_against_rfq for one Purchase Order line
PoAvailableQty(store, name, rfq_item, po_item, is_new) ==
  LET current_ordered_qty == rfq_item.ordered_qty
      rfq_total_qty == rfq_item.qty
      ko == IF is_new \/ ~DocExists(store, "Purchase Order", name) THEN 0
            ELSE FirstLine(store[name].items, po_item.item_code)
      existing_po_qty == IF ko = 0 THEN 0 ELSE store[name].items[ko].qty
  IN rfq_total_qty - current_ordered_qty + existing_po_qty

\* the body of the loop over doc.items, for one Purchase Order line
CheckPoLine(store, name, rfq_items, po_item, is_new) ==
  LET kr == FirstLine(rfq_items, po_item.item_code)
  IN IF kr = 0 THEN ""
     ELSE IF po_item.qty > PoAvailableQty(store, name, rfq_items[kr], po_item, is_new)
          THEN "Quantity Exceeded: RFQ"
     ELSE ""

validate_po_against_rfq(store, name, dt, doc, is_new) ==
  LET rfq_name == RfqOfPurchaseOrder(store, dt, doc)
  IN IF rfq_name = "" THEN ""
     ELSE IF \E k \in 1..Len(doc.items) :
                CheckPoLine(store, name, store[rfq_name].items, doc.items[k], is_new) # ""
          THEN "Quantity Exceeded: RFQ"
     ELSE ""

\* the supplier check leaving an unset supplier unset
validate_supplier_matches_sq_NoAutofill(store, dt, doc) ==
  IF dt # "Purchase Order" THEN [error |-> "", supplier |-> doc.supplier]
  ELSE IF doc.procurement_source_doctype # "Supplier Quotation"
       THEN [error |-> "", supplier |-> doc.supplier]
  ELSE IF doc.procurement_source_name = "" THEN [error |-> "", supplier |-> doc.supplier]
  ELSE IF ~DocExists(store, "Supplier Quotation", doc.procurement_source_name)
       THEN [error |-> "", supplier |-> doc.supplier]
  ELSE LET sq == store[doc.procurement_source_name]
       IN IF doc.supplier = "" THEN [error |-> "", supplier |-> doc.supplier]
          ELSE IF doc.supplier # sq.supplier
               THEN [error |-> "Supplier Mismatch", supplier |-> doc.supplier]
          ELSE [error |-> "", supplier |-> doc.supplier]

\* [error, supplier]: the error thrown and the supplier the document carries afterwards
validate_supplier_matches_sq(store, dt, doc) ==
  IF dt # "Purchase Order" THEN [error |-> "", supplier |-> doc.supplier]
  ELSE IF doc.procurement_source_doctype # "Supplier Quotation"
       THEN [error |-> "", supplier |-> doc.supplier]
  ELSE IF doc.procurement_source_name = "" THEN [error |-> "", supplier |-> doc.supplier]
  ELSE IF ~DocExists(store, "Supplier Quotation", doc.procurement_source_name)
       THEN [error |-> "", supplier |-> doc.supplier]
  ELSE LET sq == store[doc.procurement_source_name]
       IN IF doc.supplier = "" THEN [error |-> "", supplier |-> sq.supplier]
          ELSE IF doc.supplier # sq.supplier
               THEN [error |-> "Supplier Mismatch", supplier |-> doc.supplier]
          ELSE [error |-> "", supplier |-> doc.supplier]

on_po_validate(store, name, dt, doc, is_new) ==
  LET r == validate_supplier_matches_sq(store, dt, doc)
  IN IF r.error # "" THEN r
     ELSE [error |-> validate_po_against_rfq(store, name, dt, doc, is_new),
           supplier |-> r.supplier]

\* one pass of the inner loop of update_rfq_ordered_qty: the first RFQ line
\* with the Purchase Order line's item code is updated; the first definition
\* is the pass subtracting without the floor at 0
UpdateRfqLine_WithoutFloor(rfq_items, po_item, action) ==
  LET kr == FirstLine(rfq_items, po_item.item_code)
  IN IF kr = 0 THEN rfq_items
     ELSE LET old == rfq_items[kr]
              ordered == IF action = "add" THEN old.ordered_qty + po_item.qty
                         ELSE old.ordered_qty - po_item.qty
          IN [rfq_items EXCEPT ![kr] =
                [old EXCEPT !.ordered_qty = ordered, !.remaining_qty = old.qty - ordered]]

UpdateRfqLine(rfq_items, po_item, action) ==
  LET kr == FirstLine(rfq_items, po_item.item_code)
  IN IF kr = 0 THEN rfq_items
     ELSE LET old == rfq_items[kr]
              ordered == IF action = "add" THEN old.ordered_qty + po_item.qty
                         ELSE IF old.ordered_qty - po_item.qty < 0 THEN 0
                         ELSE old.ordered_qty - po_item.qty
          IN [rfq_items EXCEPT ![kr] =
                [old EXCEPT !.ordered_qty = ordered, !.remaining_qty = old.qty - ordered]]

RECURSIVE UpdateRfqLines(_, _, _)
UpdateRfqLines(rfq_items, po_items, action) ==
  IF po_items = <<>> THEN rfq_items
  ELSE UpdateRfqLines(UpdateRfqLine(rfq_items, Head(po_items), action), Tail(po_items), action)

\* sum over the non-cancelled Purchase Orders of the Submitted Supplier
\* Quotations of an RFQ
calculate_rfq_ordered_quantities_dynamic(store, rfq_name) ==
  LET sqs == {n \in Names :
                /\ DoctypeOf(n) = "Supplier Quotation"
                /\ store[n].exists
                /\ store[n].procurement_source_doctype = "Request for Quotation"
                /\ store[n].procurement_source_name = rfq_name
                /\ store[n].docstatus = 1}
      pos == {n \in Names :
                /\ DoctypeOf(n) = "Purchase Order"
                /\ store[n].exists
                /\ store[n].procurement_source_doctype = "Supplier Quotation"
                /\ store[n].procurement_source_name \in sqs
                /\ store[n].docstatus # 2}
  IN [i \in Items |-> SumOver(pos, [n \in pos |-> ItemQty(store[n].items, i)])]

(***************************************************************************)
(* Link graph                                                              *)
(***************************************************************************)
\* the test finding no link
HasLink_NeverFound(links, target_doctype, target_name) == FALSE

HasLink(links, target_doctype, target_name) ==
  \E k \in 1..Len(links) :
     /\ links[k].target_doctype = target_doctype
     /\ links[k].target_docname = target_name

\* the names of the links of one doctype, in the order of the links
RECURSIVE NamesOfType(_, _)
NamesOfType(links, doctype) ==
  IF links = <<>> THEN <<>>
  ELSE (IF Head(links).target_doctype = doctype THEN <<Head(links).target_docname>> ELSE <<>>)
       \o NamesOfType(Tail(links), doctype)

docs_by_type(forward_links) ==
  [doctype \in {forward_links[k].target_doctype : k \in 1..Len(forward_links)} |->
     NamesOfType(forward_links, doctype)]

check_can_cancel_ListingFirstLink(doc) ==
  IF doc.procurement_links # <<>>
  THEN [error |-> "Cancellation Not Allowed",
        child_docs |-> docs_by_type(<<Head(doc.procurement_links)>>)]
  ELSE [error |-> "", child_docs |-> docs_by_type(<<>>)]

\* error: the title of the rejection; child_docs: the documents its message
\* lists, by doctype
check_can_cancel(doc) ==
  IF doc.procurement_links # <<>>
  THEN [error |-> "Cancellation Not Allowed",
        child_docs |-> docs_by_type(doc.procurement_links)]
  ELSE [error |-> "", child_docs |-> docs_by_type(<<>>)]

(***************************************************************************)
(* Document events (hooks.py)                                              *)
(***************************************************************************)
\* the validate event of a doctype: [error, doc], doc as the hooks leave it
ValidateEvent(store, fl, name, doc, is_new) ==
  LET dt == DoctypeOf(name)
      e == validate_procurement_document(store, fl, name, dt, doc, is_new)
  IN IF e # "" THEN [error |-> e, doc |-> doc]
     ELSE IF dt = "Purchase Order"
     THEN LET r == on_po_validate(store, name, dt, doc, is_new)
          IN [error |-> r.error, doc |-> [doc EXCEPT !.supplier = r.supplier]]
     ELSE [error |-> "", doc |-> doc]

\* the host's save of an existing document as a hook changed it: a Cancelled
\* document cannot be saved, a Submitted one is stored without the validate
\* event (ignore_validate_update_after_submit), a Draft one passes through
\* the validate event first; save_ok is FALSE when the host's save raises
\* for a reason of its own
StoreValidated(store, name, r) ==
  IF r.error = "" THEN [error |-> "", store |-> [store EXCEPT ![name] = r.doc]]
  ELSE [error |-> r.error, store |-> store]

HostSave(store, fl, name, doc, save_ok) ==
  IF ~save_ok THEN [error |-> "Save failed", store |-> store]
  ELSE IF doc.docstatus = 2
  THEN [error |-> "Cannot edit cancelled document", store |-> store]
  ELSE IF doc.docstatus = 1 THEN [error |-> "", store |-> [store EXCEPT ![name] = doc]]
  ELSE StoreValidated(store, name, ValidateEvent(store, fl, name, doc, FALSE))

\* create_backward_link gives the store the call leaves and the exception it
\* raises: none in any case, every failure being logged and swallowed.
\* has_field: whether the source's schema has the procurement_links field.
\* The first definition is the call letting its failures through
create_backward_link_Raising(store, fl, source_doctype, source_name, target_doctype, target_name, has_field, save_ok) ==
  IF ~DocExists(store, source_doctype, source_name)
  THEN [store |-> store, error |-> "DoesNotExistError"]
  ELSE IF ~has_field THEN [store |-> store, error |-> ""]
  ELSE IF HasLink(store[source_name].procurement_links, target_doctype, target_name)
  THEN [store |-> store, error |-> ""]
  ELSE LET source_doc == [store[source_name] EXCEPT !.procurement_links =
                            Append(@, [target_doctype |-> target_doctype,
                                       target_docname |-> target_name])]
       IN HostSave(store, fl, source_name, source_doc, save_ok)

create_backward_link(store, fl, source_doctype, source_name, target_doctype, target_name, has_field, save_ok) ==
  IF ~DocExists(store, source_doctype, source_name) THEN [store |-> store, error |-> ""]
  ELSE IF ~has_field THEN [store |-> store, error |-> ""]
  ELSE IF HasLink(store[source_name].procurement_links, target_doctype, target_name)
  THEN [store |-> store, error |-> ""]
  ELSE LET source_doc == [store[source_name] EXCEPT !.procurement_links =
                            Append(@, [target_doctype |-> target_doctype,
                                       target_docname |-> target_name])]
       IN [store |-> HostSave(store, fl, source_name, source_doc, save_ok).store, error |-> ""]

\* the exceptions on_procurement_submit does not raise again: those whose
\* message mentions procurement_links or NoneType
LinkSetupErrors ==
  {"Unknown column 'procurement_links'", "'NoneType' object has no attribute 'meta'"}

\* the except clause of on_procurement_submit, r the outcome of the call
HandleLinkError(store, r) ==
  IF r.error # "" /\ r.error \notin LinkSetupErrors
  THEN [store |-> store, error |-> r.error]
  ELSE [store |-> r.store, error |-> ""]

on_procurement_submit(store, fl, name, dt, doc, has_field, save_ok) ==
  IF doc.procurement_source_doctype # "" /\ doc.procurement_source_name # ""
  THEN HandleLinkError(store,
         create_backward_link(store, fl, doc.procurement_source_doctype,
                              doc.procurement_source_name, dt, name, has_field, save_ok))
  ELSE [store |-> store, error |-> ""]

\* a failure of the RFQ's save is logged and swallowed as well; the first
\* definition is the update stopping after the first Purchase Order line
update_rfq_ordered_qty_FirstLineOnly(store, fl, dt, po_doc, action, save_ok) ==
  LET rfq_name == RfqOfPurchaseOrder(store, dt, po_doc)
  IN IF rfq_name = "" THEN store
     ELSE LET rfq == [store[rfq_name] EXCEPT !.items =
                        UpdateRfqLines(@, SubSeq(po_doc.items, 1, 1), action)]
          IN HostSave(store, fl, rfq_name, rfq, save_ok).store

update_rfq_ordered_qty(store, fl, dt, po_doc, action, save_ok) ==
  LET rfq_name == RfqOfPurchaseOrder(store, dt, po_doc)
  IN IF rfq_name = "" THEN store
     ELSE LET rfq == [store[rfq_name] EXCEPT !.items = UpdateRfqLines(@, po_doc.items, action)]
          IN HostSave(store, fl, rfq_name, rfq, save_ok).store

\* the on_submit event: [store, error], error the exception a hook raises
\* the hooks after on_procurement_submit, r its outcome
NextSubmitHooks_WithoutOrderUpdate(r, fl, dt, doc, save_ok) == r

NextSubmitHooks(r, fl, dt, doc, save_ok) ==
  IF r.error # "" THEN r
  ELSE IF dt = "Purchase Order"
  THEN [store |-> update_rfq_ordered_qty(r.store, fl, dt, doc, "add", save_ok), error |-> ""]
  ELSE r

SubmitEvent(store, fl, name, doc, has_field, save_ok) ==
  NextSubmitHooks(on_procurement_submit(store, fl, name, DoctypeOf(name), doc,
                                        has_field, save_ok),
                  fl, DoctypeOf(name), doc, save_ok)

\* the on_cancel event taking the cancelled document's link off its source
CancelEvent_RemovingLink(store, fl, name, doc) ==
  LET dt == DoctypeOf(name)
      sn == doc.procurement_source_name
      s1 == IF sn \in Names
            THEN [store EXCEPT ![sn].procurement_links =
                    SelectSeq(@, LAMBDA l : l.target_docname # name)]
            ELSE store
  IN IF dt = "Purchase Order"
     THEN update_rfq_ordered_qty(s1, fl, dt, doc, "subtract", TRUE)
     ELSE s1

CancelEvent(store, fl, name, doc) ==
  LET dt == DoctypeOf(name)
  IN IF dt = "Purchase Order"
     THEN update_rfq_ordered_qty(store, fl, dt, doc, "subtract", TRUE)
     ELSE store

(***************************************************************************)
(* RFQ Supplier Rule (rfq_supplier_rule.py): the rules of the store and    *)
(* the rule applicable to an amount                                        *)
(***************************************************************************)
RuleNames == {"RULE-1", "RULE-2"}

Rule(active, from, to, min, prio) ==
  [exists |-> TRUE, is_active |-> active, amount_from |-> from, amount_to |-> to,
   min_suppliers |-> min, priority |-> prio]

NoRule ==
  [exists |-> FALSE, is_active |-> FALSE, amount_from |-> 0, amount_to |-> 0,
   min_suppliers |-> 0, priority |-> 0]

NoRules == [n \in RuleNames |-> NoRule]

validate_amount_range(self) ==
  IF self.amount_from >= self.amount_to THEN "Invalid Amount Range" ELSE ""

validate_min_suppliers(self) ==
  IF self.min_suppliers < 1 THEN "Invalid Minimum Suppliers" ELSE ""

\* the other active rules whose range overlaps that of self
overlapping_rules(store, name, self) ==
  {n \in RuleNames \ {name} :
     /\ store[n].exists /\ store[n].is_active
     /\ self.amount_from < store[n].amount_to
     /\ store[n].amount_from < self.amount_to}

\* the overlap check taking a shared boundary for an overlap
validate_no_overlaps_ClosedRanges(store, name, self) ==
  IF ~self.is_active THEN ""
  ELSE IF \E n \in RuleNames \ {name} :
             /\ store[n].exists /\ store[n].is_active
             /\ self.amount_from <= store[n].amount_to
             /\ store[n].amount_from <= self.amount_to
  THEN "Overlapping Amount Ranges"
  ELSE ""

validate_no_overlaps(store, name, self) ==
  IF ~self.is_active THEN ""
  ELSE IF overlapping_rules(store, name, self) # {} THEN "Overlapping Amount Ranges"
  ELSE ""

RFQSupplierRule_validate(store, name, self) ==
  IF validate_amount_range(self) # "" THEN validate_amount_range(self)
  ELSE IF validate_no_overlaps(store, name, self) # ""
  THEN validate_no_overlaps(store, name, self)
  ELSE validate_min_suppliers(self)

\* the query of get_applicable_rule without its is_active filter
MatchingRules_AnyStatus(store, total_amount) ==
  {n \in RuleNames :
     /\ store[n].exists
     /\ store[n].amount_from <= total_amount
     /\ store[n].amount_to > total_amount}

\* the rows of the query of get_applicable_rule
MatchingRules(store, total_amount) ==
  {n \in RuleNames :
     /\ store[n].exists /\ store[n].is_active
     /\ store[n].amount_from <= total_amount
     /\ store[n].amount_to > total_amount}

\* order_by "priority asc, amount_from asc"
OrderedBefore(store, n, m) ==
  \/ store[n].priority < store[m].priority
  \/ /\ store[n].priority = store[m].priority
     /\ store[n].amount_from <= store[m].amount_from

\* the selection ordering the rows by amount_from alone
get_applicable_rule_ByAmountOnly(store, total_amount) ==
  LET matching == MatchingRules(store, total_amount)
  IN IF matching = {} THEN {"None"}
     ELSE {n \in matching : \A m \in matching : store[n].amount_from <= store[m].amount_from}

\* the values get_applicable_rule can return: "None", or the rules the
\* database can put first, rows equal in priority and amount_from coming in
\* any order
get_applicable_rule(store, total_amount) ==
  LET matching == MatchingRules(store, total_amount)
  IN IF matching = {} THEN {"None"}
     ELSE {n \in matching : \A m \in matching : OrderedBefore(store, n, m)}

(***************************************************************************)
(* Supplier comparison (supplier_comparison.py).  quotations is the result *)
(* of the query for the Submitted Supplier Quotations of the RFQ, in the   *)
(* order the database returns them: name, supplier, grand_total and the    *)
(* lines with their item_code and rate                                     *)
(***************************************************************************)
Quote(name, supplier, grand_total, its) ==
  [name |-> name, supplier |-> supplier, grand_total |-> grand_total, items |-> its]

RatedLine(i, r) == [item_code |-> i, rate |-> r]

\* the keys of a dictionary in insertion order: a sequence without its
\* repetitions
RECURSIVE KeysInOrder(_)
KeysInOrder(s) ==
  IF s = <<>> THEN <<>>
  ELSE LET front == KeysInOrder(SubSeq(s, 1, Len(s) - 1))
           x == s[Len(s)]
       IN IF \E k \in 1..Len(front) : front[k] = x THEN front ELSE Append(front, x)

\* the index of the last quotation of a supplier: it is the one whose values
\* supplier_totals keeps
LastQuoteOf(sqs, supplier) ==
  CHOOSE k \in 1..Len(sqs) :
    /\ sqs[k].supplier = supplier
    /\ \A j \in (k + 1)..Len(sqs) : sqs[j].supplier # supplier

\* supplier_totals before the ranking, its keys in insertion order
SupplierKeys(sqs) == KeysInOrder([k \in 1..Len(sqs) |-> sqs[k].supplier])

\* the lines of all quotations in the order the loops visit them
RECURSIVE QuotedLines(_)
QuotedLines(sqs) ==
  IF sqs = <<>> THEN <<>>
  ELSE [k \in 1..Len(Head(sqs).items) |->
          [supplier |-> Head(sqs).supplier,
           item_code |-> Head(sqs).items[k].item_code,
           rate |-> Head(sqs).items[k].rate]]
       \o QuotedLines(Tail(sqs))

\* the keys of items_by_supplier in insertion order
ItemKeys(sqs) ==
  KeysInOrder([k \in 1..Len(QuotedLines(sqs)) |-> QuotedLines(sqs)[k].item_code])

\* supplier in item_data
HasRate(sqs, item_code, supplier) ==
  \E k \in 1..Len(QuotedLines(sqs)) :
     QuotedLines(sqs)[k].item_code = item_code /\ QuotedLines(sqs)[k].supplier = supplier

\* item_data[supplier]["rate"]: the entry written last
RateOf(sqs, item_code, supplier) ==
  LET lines == QuotedLines(sqs)
      k == CHOOSE k \in 1..Len(lines) :
             /\ lines[k].item_code = item_code /\ lines[k].supplier = supplier
             /\ \A j \in (k + 1)..Len(lines) :
                  ~(lines[j].item_code = item_code /\ lines[j].supplier = supplier)
  IN lines[k].rate

\* the loop over supplier_totals.keys() for one item; best_supplier "" is
\* None
RECURSIVE BestRate(_, _, _, _)
BestRate(sqs, item_code, suppliers, best) ==
  IF suppliers = <<>> THEN best
  ELSE LET supplier == Head(suppliers)
           next == IF /\ HasRate(sqs, item_code, supplier)
                      /\ \/ best.best_supplier = ""
                         \/ RateOf(sqs, item_code, supplier) < best.best_rate
                   THEN [item_code |-> item_code,
                         best_rate |-> RateOf(sqs, item_code, supplier),
                         best_supplier |-> supplier]
                   ELSE best
       IN BestRate(sqs, item_code, Tail(suppliers), next)

items_comparison(sqs) ==
  [k \in 1..Len(ItemKeys(sqs)) |->
     BestRate(sqs, ItemKeys(sqs)[k], SupplierKeys(sqs),
              [item_code |-> ItemKeys(sqs)[k], best_rate |-> 0, best_supplier |-> ""])]

TotalOf(sqs, supplier) == sqs[LastQuoteOf(sqs, supplier)].grand_total

\* sorted(): a stable sort of the suppliers by their total
RECURSIVE InsertByTotal(_, _, _)
InsertByTotal(sqs, sorted, supplier) ==
  IF sorted = <<>> THEN <<supplier>>
  ELSE IF TotalOf(sqs, Head(sorted)) <= TotalOf(sqs, supplier)
  THEN <<Head(sorted)>> \o InsertByTotal(sqs, Tail(sorted), supplier)
  ELSE <<supplier>> \o sorted

RECURSIVE SortByTotal(_, _)
SortByTotal(sqs, suppliers) ==
  IF suppliers = <<>> THEN <<>>
  ELSE InsertByTotal(sqs, SortByTotal(sqs, SubSeq(suppliers, 1, Len(suppliers) - 1)),
                     suppliers[Len(suppliers)])

sorted_suppliers(sqs) == SortByTotal(sqs, SupplierKeys(sqs))

\* supplier_totals after the ranking
supplier_totals(sqs) ==
  [supplier \in {sqs[k].supplier : k \in 1..Len(sqs)} |->
     [sq_name |-> sqs[LastQuoteOf(sqs, supplier)].name,
      total |-> TotalOf(sqs, supplier),
      items_count |-> Len(sqs[LastQuoteOf(sqs, supplier)].items),
      rank |-> CHOOSE r \in 1..Len(sorted_suppliers(sqs)) :
                 sorted_suppliers(sqs)[r] = supplier]]

\* item_wise_winners: the suppliers that won an item, in the order of their
\* first win, and the number of items a supplier won
ItemsWon(sqs, supplier) ==
  Cardinality({k \in 1..Len(items_comparison(sqs)) :
                 items_comparison(sqs)[k].best_supplier = supplier})

WinnerKeys(sqs) ==
  KeysInOrder([k \in 1..Len(items_comparison(sqs)) |-> items_comparison(sqs)[k].best_supplier])

\* max(): the first of the suppliers that won the most items
winner_by_items(sqs) ==
  IF WinnerKeys(sqs) = <<>> THEN ""
  ELSE LET keys == WinnerKeys(sqs)
           k == CHOOSE k \in 1..Len(keys) :
                  /\ \A j \in 1..Len(keys) : ItemsWon(sqs, keys[j]) <= ItemsWon(sqs, keys[k])
                  /\ \A j \in 1..(k - 1) : ItemsWon(sqs, keys[j]) < ItemsWon(sqs, keys[k])
       IN keys[k]

\* the result of the call; avg_rate and the fields copied from the
\* documents are left out
get_supplier_quotations_comparison(sqs, rfq_name) ==
  IF sqs = <<>>
  THEN [op |-> "comparison", name |-> rfq_name, is_new |-> FALSE,
        error |-> "No submitted Supplier Quotations found for this RFQ"]
  ELSE [op |-> "comparison", name |-> rfq_name, is_new |-> FALSE, error |-> "",
        items_comparison |-> items_comparison(sqs),
        supplier_totals |-> supplier_totals(sqs),
        winner_by_total |-> sorted_suppliers(sqs)[1],
        winner_by_items |-> winner_by_items(sqs)]

(***************************************************************************)
(* Read-only walks over the source pointers                                *)
(***************************************************************************)
Key(dt, name) == <<dt, name>>

HasSource(doc) == doc.procurement_source_doctype # "" /\ doc.procurement_source_name # ""

max_iterations == 20

\* the loop of find_root_document; a failing get_doc breaks the loop
RECURSIVE FindRootLoop(_, _, _, _)
FindRootLoop(store, current_dt, current_name, iterations) ==
  LET here == [doctype |-> current_dt, name |-> current_name, iterations |-> iterations]
  IN IF iterations >= max_iterations THEN here
     ELSE IF ~DocExists(store, current_dt, current_name) THEN here
     ELSE IF HasSource(store[current_name])
          THEN FindRootLoop(store, store[current_name].procurement_source_doctype,
                            store[current_name].procurement_source_name, iterations + 1)
     ELSE here

find_root_document(store, doctype, docname) == FindRootLoop(store, doctype, docname, 0)

\* the loop of get_path_to_document: the set of keys and the iterations made
RECURSIVE PathLoop(_, _, _, _, _)
PathLoop(store, current_dt, current_name, iterations, path) ==
  IF iterations >= max_iterations THEN [path |-> path, iterations |-> iterations]
  ELSE IF /\ DocExists(store, current_dt, current_name)
          /\ HasSource(store[current_name])
       THEN PathLoop(store, store[current_name].procurement_source_doctype,
                     store[current_name].procurement_source_name, iterations + 1,
                     path \cup {Key(current_dt, current_name)})
  ELSE [path |-> path \cup {Key(current_dt, current_name)}, iterations |-> iterations]

get_path_to_document(store, target_doctype, target_docname) ==
  PathLoop(store, target_doctype, target_docname, 0, {})

\* the while loop over the sources in get_linked_documents_with_counts: it
\* has no counter, and a walk that comes back to a key it has appended
\* goes round for ever
RECURSIVE BackwardLoop(_, _, _, _)
BackwardLoop(store, current_doctype, current_name, backward_chain) ==
  IF current_doctype = "" \/ current_name = ""
  THEN [chain |-> backward_chain, terminates |-> TRUE]
  ELSE IF \E k \in 1..Len(backward_chain) :
            backward_chain[k] = Key(current_doctype, current_name)
  THEN [chain |-> backward_chain, terminates |-> FALSE]
  ELSE IF ~DocExists(store, current_doctype, current_name)
  THEN [chain |-> Append(backward_chain, Key(current_doctype, current_name)),
        terminates |-> TRUE]
  ELSE BackwardLoop(store, store[current_name].procurement_source_doctype,
                    store[current_name].procurement_source_name,
                    Append(backward_chain, Key(current_doctype, current_name)))

\* linked_docs["backward"] as a chain; a document that does not exist makes
\* the outer try return the empty result
backward_chain(store, doctype, docname) ==
  IF ~DocExists(store, doctype, docname) THEN [chain |-> <<>>, terminates |-> TRUE]
  ELSE IF HasSource(store[docname])
  THEN BackwardLoop(store, store[docname].procurement_source_doctype,
                    store[docname].procurement_source_name, <<>>)
  ELSE [chain |-> <<>>, terminates |-> TRUE]

\* get_document_chain calls itself on the source without a counter and
\* without a try: error is the exception the call ends with, calls the keys
\* of the calls in progress
RECURSIVE DocumentChain(_, _, _, _)
DocumentChain(store, doctype, docname, calls) ==
  IF ~DocExists(store, doctype, docname)
  THEN [backward |-> <<>>, forward |-> <<>>, error |-> "DoesNotExistError"]
  ELSE IF Key(doctype, docname) \in calls
  THEN [backward |-> <<>>, forward |-> <<>>, error |-> "RecursionError"]
  ELSE LET doc == store[docname]
           forward == [k \in 1..Len(doc.procurement_links) |->
                         Key(doc.procurement_links[k].target_doctype,
                             doc.procurement_links[k].target_docname)]
       IN IF HasSource(doc)
          THEN LET source_chain == DocumentChain(store, doc.procurement_source_doctype,
                                                 doc.procurement_source_name,
                                                 calls \cup {Key(doctype, docname)})
               IN IF source_chain.error # "" THEN source_chain
                  ELSE [backward |-> Append(source_chain.backward,
                                            Key(doc.procurement_source_doctype,
                                                doc.procurement_source_name)),
                        forward |-> forward, error |-> ""]
          ELSE [backward |-> <<>>, forward |-> forward, error |-> ""]

get_document_chain(store, doctype, docname) == DocumentChain(store, doctype, docname, {})

(***************************************************************************)
(* The walk over the children and the tree of the document flow            *)
(***************************************************************************)
\* the rows of a query in the order ord of the database
DbOrder(S, ord) == SelectSeq(ord, LAMBDA n : n \in S)

\* forward_by_type with name appended to the list of child_doctype, unless
\* the list holds it
AddForward(forward_by_type, child_doctype, name) ==
  IF \E k \in 1..Len(forward_by_type) : forward_by_type[k].doctype = child_doctype
  THEN [k \in 1..Len(forward_by_type) |->
          IF /\ forward_by_type[k].doctype = child_doctype
             /\ \A j \in 1..Len(forward_by_type[k].documents) :
                  forward_by_type[k].documents[j] # name
          THEN [forward_by_type[k] EXCEPT !.documents = Append(@, name)]
          ELSE forward_by_type[k]]
  ELSE Append(forward_by_type, [doctype |-> child_doctype, documents |-> <<name>>])

RECURSIVE collect_all_descendants(_, _, _, _, _)
RECURSIVE CollectDoctypes(_, _, _, _, _, _)
RECURSIVE CollectChildren(_, _, _, _, _)

\* st holds the visited set and forward_by_type
collect_all_descendants(store, ord, dt, dn, st) ==
  IF Key(dt, dn) \in st.visited THEN st
  ELSE CollectDoctypes(store, ord, dt, dn, 1,
                       [st EXCEPT !.visited = @ \cup {Key(dt, dn)}])

CollectDoctypes(store, ord, dt, dn, i, st) ==
  IF i > Len(PROCUREMENT_DOCTYPES) THEN st
  ELSE CollectDoctypes(store, ord, dt, dn, i + 1,
         CollectChildren(store, ord, PROCUREMENT_DOCTYPES[i],
                         DbOrder(ChildDocs(store, dt, dn, PROCUREMENT_DOCTYPES[i], ""), ord),
                         st))

CollectChildren(store, ord, child_doctype, child_docs, st) ==
  IF child_docs = <<>> THEN st
  ELSE CollectChildren(store, ord, child_doctype, Tail(child_docs),
         collect_all_descendants(store, ord, child_doctype, Head(child_docs),
           [st EXCEPT !.forward = AddForward(@, child_doctype, Head(child_docs))]))

\* the forward part comes after the backward loop, and only if that ends
LinkedDocs(store, ord, doctype, docname, backward) ==
  IF ~backward.terminates
  THEN [backward |-> backward.chain, forward |-> <<>>, terminates |-> FALSE]
  ELSE IF ~DocExists(store, doctype, docname)
  THEN [backward |-> <<>>, forward |-> <<>>, terminates |-> TRUE]
  ELSE [backward |-> backward.chain,
        forward |-> collect_all_descendants(store, ord, doctype, docname,
                                            [visited |-> {}, forward |-> <<>>]).forward,
        terminates |-> TRUE]

get_linked_documents_with_counts(store, ord, doctype, docname) ==
  LinkedDocs(store, ord, doctype, docname, backward_chain(store, doctype, docname))

NoKey == Key("", "")

\* The tree as the list of its nodes in the order they are appended, parent
\* the key of the node whose children the node was added to (NoKey for a
\* node of flow_data["nodes"]); t holds processed, the nodes and whether
\* every call made so far has returned
RECURSIVE build_complete_tree(_, _, _, _, _, _, _, _)
RECURSIVE TreeLinks(_, _, _, _, _, _, _)
RECURSIVE TreeDocuments(_, _, _, _, _, _, _, _)
RECURSIVE TreeNode(_, _, _, _, _, _, _, _, _)

build_complete_tree(store, ord, doctype, docname, parent, current_path, target, t) ==
  IF ~t.terminates \/ Key(doctype, docname) \in t.processed THEN t
  ELSE IF ~DocExists(store, doctype, docname)
  THEN [t EXCEPT !.processed = @ \cup {Key(doctype, docname)}]
  ELSE TreeNode(store, ord, doctype, docname, parent, current_path, target,
                get_linked_documents_with_counts(store, ord, doctype, docname),
                [t EXCEPT !.processed = @ \cup {Key(doctype, docname)}])

TreeNode(store, ord, doctype, docname, parent, current_path, target, linked, t) ==
  IF ~linked.terminates THEN [t EXCEPT !.terminates = FALSE]
  ELSE [TreeLinks(store, ord, Key(doctype, docname), linked.forward, current_path, target, t)
          EXCEPT !.nodes = Append(@, [doctype |-> doctype, name |-> docname,
                                      parent |-> parent,
                                      is_in_path |-> Key(doctype, docname) \in current_path,
                                      is_current |-> Key(doctype, docname) = target])]

TreeLinks(store, ord, node, forward, current_path, target, t) ==
  IF forward = <<>> THEN t
  ELSE TreeLinks(store, ord, node, Tail(forward), current_path, target,
         TreeDocuments(store, ord, node, Head(forward).doctype, Head(forward).documents,
                   current_path, target, t))

TreeDocuments(store, ord, node, dt, doc_names, current_path, target, t) ==
  IF doc_names = <<>> THEN t
  ELSE TreeDocuments(store, ord, node, dt, Tail(doc_names), current_path, target,
         build_complete_tree(store, ord, dt, Head(doc_names), node, current_path, target, t))

FlowTree(store, ord, root, current_path, target) ==
  build_complete_tree(store, ord, root.doctype, root.name, NoKey, current_path, target,
                      [processed |-> {}, nodes |-> <<>>, terminates |-> TRUE])

get_document_flow_with_statuses(store, ord, doctype, docname) ==
  FlowTree(store, ord, find_root_document(store, doctype, docname),
           get_path_to_document(store, doctype, docname).path, Key(doctype, docname))

(***************************************************************************)
(* Operations of the host on a document: save (insert or update of a       *)
(* Draft), submit and cancel, each running the hooks of hooks.py           *)
(***************************************************************************)
NoOp == [op |-> "none", name |-> "", is_new |-> FALSE, error |-> ""]

\* the requests in progress: none
NoRequest == [active |-> FALSE, doc |-> NoDoc, seen |-> <<>>]

NoRequests == [n \in Names |-> NoRequest]

\* rows of an edited document keep the read-only quantity cache of the row
\* they replace
KeepRows(old_items, new_items) ==
  [k \in 1..Len(new_items) |->
     IF k <= Len(old_items) /\ old_items[k].item_code = new_items[k].item_code
     THEN [new_items[k] EXCEPT !.ordered_qty = old_items[k].ordered_qty,
                               !.remaining_qty = old_items[k].remaining_qty]
     ELSE new_items[k]]

\* the document as the validate event receives it on save
Edited(old, cand) ==
  [cand EXCEPT !.items = KeepRows(old.items, cand.items),
               !.procurement_links = old.procurement_links]

Save(n, cand) ==
  /\ ~docs[n].exists \/ docs[n].docstatus = 0
  /\ LET is_new == ~docs[n].exists
         r == ValidateEvent(docs, flows, n, Edited(docs[n], cand), is_new)
     IN /\ docs' = IF r.error = "" THEN [docs EXCEPT ![n] = r.doc] ELSE docs
        /\ last' = [op |-> "save", name |-> n, is_new |-> is_new, error |-> r.error]
  /\ UNCHANGED <<flows, rules, quotations, requests>>

\* has_field, save_ok: whether the source's schema has the links field and
\* whether the host's saves made by the submit hooks go through; an
\* exception of a submit hook rolls the submission back
SubmitOutcome(n, r, e) ==
  /\ docs' = IF r.error = "" /\ e.error = "" THEN e.store ELSE docs
  /\ last' = [op |-> "submit", name |-> n, is_new |-> FALSE,
              error |-> IF r.error # "" THEN r.error ELSE e.error]

\* r: the outcome of the validate event of the submission
SubmitValidated(n, r, has_field, save_ok) ==
  SubmitOutcome(n, r, SubmitEvent([docs EXCEPT ![n] = [r.doc EXCEPT !.docstatus = 1]],
                                  flows, n, [r.doc EXCEPT !.docstatus = 1],
                                  has_field, save_ok))

SubmitWith(n, has_field, save_ok) ==
  /\ docs[n].exists /\ docs[n].docstatus = 0
  /\ SubmitValidated(n, ValidateEvent(docs, flows, n, docs[n], FALSE), has_field, save_ok)
  /\ UNCHANGED <<flows, rules, quotations, requests>>

Submit(n) == SubmitWith(n, TRUE, TRUE)

\* A submission of a new document as two steps of its request, other
\* requests running in between: the validate event reading the database,
\* then the write of the Submitted document and the submit hooks.  seen is
\* the database as the validation read it
BeginSubmit(n, cand) ==
  /\ ~docs[n].exists /\ ~requests[n].active
  /\ LET r == ValidateEvent(docs, flows, n, cand, TRUE)
     IN /\ requests' = IF r.error = ""
                       THEN [requests EXCEPT ![n] = [active |-> TRUE, doc |-> r.doc, seen |-> docs]]
                       ELSE requests
        /\ last' = [op |-> "validate", name |-> n, is_new |-> TRUE, error |-> r.error]
  /\ UNCHANGED <<docs, flows, rules, quotations>>

\* the second step, checking the quantities once more against the
\* database as it is at the write
FinishSubmit_CheckingAgain(n, save_ok) ==
  /\ requests[n].active
  /\ LET doc == [requests[n].doc EXCEPT !.docstatus = 1]
         r == ValidateEvent(docs, flows, n, requests[n].doc, TRUE)
         e == SubmitEvent([docs EXCEPT ![n] = doc], flows, n, doc, TRUE, save_ok)
     IN /\ docs' = IF r.error = "" /\ e.error = "" THEN e.store ELSE docs
        /\ last' = [op |-> "submit", name |-> n, is_new |-> TRUE,
                    error |-> IF r.error # "" THEN r.error ELSE e.error,
                    seen |-> requests[n].seen]
  /\ requests' = [requests EXCEPT ![n] = NoRequest]
  /\ UNCHANGED <<flows, rules, quotations>>

FinishSubmit(n, save_ok) ==
  /\ requests[n].active
  /\ LET doc == [requests[n].doc EXCEPT !.docstatus = 1]
         e == SubmitEvent([docs EXCEPT ![n] = doc], flows, n, doc, TRUE, save_ok)
     IN /\ docs' = IF e.error = "" THEN e.store ELSE docs
        /\ last' = [op |-> "submit", name |-> n, is_new |-> TRUE, error |-> e.error,
                    seen |-> requests[n].seen]
  /\ requests' = [requests EXCEPT ![n] = NoRequest]
  /\ UNCHANGED <<flows, rules, quotations>>

Cancel(n) ==
  /\ docs[n].exists /\ docs[n].docstatus = 1
  /\ LET e == check_can_cancel(docs[n]).error
         cancelled == [docs[n] EXCEPT !.docstatus = 2]
     IN /\ docs' = IF e = ""
                   THEN CancelEvent([docs EXCEPT ![n] = cancelled], flows, n, cancelled)
                   ELSE docs
        /\ last' = [op |-> "cancel", name |-> n, is_new |-> FALSE, error |-> e]
  /\ UNCHANGED <<flows, rules, quotations, requests>>

SaveFlow(f, cand) ==
  /\ LET e == ProcurementFlow_validate(flows, f, cand)
     IN /\ flows' = IF e = "" THEN [flows EXCEPT ![f] = cand] ELSE flows
        /\ last' = [op |-> "save_flow", name |-> f, is_new |-> ~flows[f].exists, error |-> e]
  /\ UNCHANGED <<docs, rules, quotations, requests>>

\* the save of a rule, new or edited
SaveRule(n, cand) ==
  /\ LET e == RFQSupplierRule_validate(rules, n, cand)
     IN /\ rules' = IF e = "" THEN [rules EXCEPT ![n] = cand] ELSE rules
        /\ last' = [op |-> "save_rule", name |-> n, is_new |-> ~rules[n].exists, error |-> e]
  /\ UNCHANGED <<docs, flows, quotations, requests>>

\* a call of get_applicable_rule, its result in last.name
ApplyRule(total_amount) ==
  /\ \E r \in get_applicable_rule(rules, total_amount) :
       last' = [op |-> "get_applicable_rule", name |-> r, is_new |-> FALSE, error |-> "",
                total_amount |-> total_amount]
  /\ UNCHANGED <<docs, flows, rules, quotations, requests>>

\* a call of get_supplier_quotations_comparison, its result in last
Compare(rfq_name) ==
  /\ last' = get_supplier_quotations_comparison(quotations, rfq_name)
  /\ UNCHANGED <<docs, flows, rules, quotations, requests>>

\* calls of the read-only walks on a document, their results in last
ViewRoot(n) ==
  /\ last' = [op |-> "find_root_document", name |-> n, is_new |-> FALSE, error |-> "",
              result |-> find_root_document(docs, DoctypeOf(n), n)]
  /\ UNCHANGED <<docs, flows, rules, quotations, requests>>

ViewPath(n) ==
  /\ last' = [op |-> "get_path_to_document", name |-> n, is_new |-> FALSE, error |-> "",
              result |-> get_path_to_document(docs, DoctypeOf(n), n)]
  /\ UNCHANGED <<docs, flows, rules, quotations, requests>>

ViewBackward(n) ==
  /\ last' = [op |-> "backward_chain", name |-> n, is_new |-> FALSE, error |-> "",
              result |-> backward_chain(docs, DoctypeOf(n), n)]
  /\ UNCHANGED <<docs, flows, rules, quotations, requests>>

ViewChain(n) ==
  /\ LET r == get_document_chain(docs, DoctypeOf(n), n)
     IN last' = [op |-> "get_document_chain", name |-> n, is_new |-> FALSE,
                 error |-> r.error, result |-> r]
  /\ UNCHANGED <<docs, flows, rules, quotations, requests>>

ViewLinked(n, ord) ==
  /\ last' = [op |-> "get_linked_documents_with_counts", name |-> n, is_new |-> FALSE,
              error |-> "",
              result |-> get_linked_documents_with_counts(docs, ord, DoctypeOf(n), n)]
  /\ UNCHANGED <<docs, flows, rules, quotations, requests>>

ViewFlow(n, ord) ==
  /\ last' = [op |-> "get_document_flow_with_statuses", name |-> n, is_new |-> FALSE,
              error |-> "",
              result |-> get_document_flow_with_statuses(docs, ord, DoctypeOf(n), n)]
  /\ UNCHANGED <<docs, flows, rules, quotations, requests>>

(***************************************************************************)
(* Pivot creation of Supplier Quotations                                   *)
(***************************************************************************)
\* items_with_prices: the priced entries whose item is a line of the RFQ,
\* a quantity of 0 replaced by the RFQ line's
RECURSIVE items_with_prices(_, _)
items_with_prices(rfq_items, items_data) ==
  IF items_data = <<>> THEN <<>>
  ELSE LET e == Head(items_data)
           k == FirstLine(rfq_items, e.item_code)
           rest == items_with_prices(rfq_items, Tail(items_data))
       IN IF e.rate > 0 /\ k # 0
          THEN <<Line(e.item_code, IF e.qty > 0 THEN e.qty ELSE rfq_items[k].qty)>> \o rest
          ELSE rest

\* the name the host gives the next inserted Supplier Quotation
NewQuotationName(store) ==
  CHOOSE n \in {"SQ-1", "SQ-2"} :
    /\ ~store[n].exists
    /\ n = "SQ-2" => store["SQ-1"].exists

\* one pass of the loop over the suppliers of pivot_data, a failure of the
\* insert left unrecorded
PivotSupplier_DiscardingFailure(acc, fl, rfq_name, rfq_items, entry) ==
  LET items == items_with_prices(rfq_items, entry.items_data)
      name == NewQuotationName(acc.store)
      sq == NewDoc("Request for Quotation", rfq_name, entry.supplier, {}, items)
      r == ValidateEvent(acc.store, fl, name, sq, TRUE)
  IN IF items = <<>>
     THEN [acc EXCEPT !.skipped = Append(@, entry.supplier)]
     ELSE IF r.error = ""
     THEN [acc EXCEPT !.store = [acc.store EXCEPT ![name] = r.doc],
                      !.created = Append(@, name)]
     ELSE acc

\* one pass of the loop over the suppliers of pivot_data
PivotSupplier(acc, fl, rfq_name, rfq_items, entry) ==
  LET items == items_with_prices(rfq_items, entry.items_data)
      name == NewQuotationName(acc.store)
      sq == NewDoc("Request for Quotation", rfq_name, entry.supplier, {}, items)
      r == ValidateEvent(acc.store, fl, name, sq, TRUE)
  IN IF items = <<>>
     THEN [acc EXCEPT !.skipped = Append(@, entry.supplier)]
     ELSE IF r.error = ""
     THEN [acc EXCEPT !.store = [acc.store EXCEPT ![name] = r.doc],
                      !.created = Append(@, name)]
     ELSE [acc EXCEPT !.errors = Append(@, [supplier |-> entry.supplier, error |-> r.error])]

RECURSIVE PivotLoop(_, _, _, _, _)
PivotLoop(acc, fl, rfq_name, rfq_items, pivot_data) ==
  IF pivot_data = <<>> THEN acc
  ELSE PivotLoop(PivotSupplier(acc, fl, rfq_name, rfq_items, Head(pivot_data)),
                 fl, rfq_name, rfq_items, Tail(pivot_data))

\* [store, created, skipped, errors]
create_supplier_quotations_from_pivot(store, fl, rfq_name, pivot_data) ==
  PivotLoop([store |-> store, created |-> <<>>, skipped |-> <<>>, errors |-> <<>>],
            fl, rfq_name, store[rfq_name].items, pivot_data)

\* the host has a fresh name for every quotation the call may insert
Pivot(rfq_name, pivot_data) ==
  /\ DocExists(docs, "Request for Quotation", rfq_name)
  /\ Cardinality({n \in {"SQ-1", "SQ-2"} : ~docs[n].exists}) >= Len(pivot_data)
  /\ LET r == create_supplier_quotations_from_pivot(docs, flows, rfq_name, pivot_data)
     IN /\ docs' = r.store
        /\ last' = [op |-> "pivot", name |-> rfq_name, is_new |-> TRUE, error |-> "",
                    pivot_data |-> pivot_data,
                    created |-> r.created, skipped |-> r.skipped, errors |-> r.errors]
  /\ UNCHANGED <<flows, rules, quotations, requests>>

(***************************************************************************)
(* Inputs                                                                  *)
(***************************************************************************)
LineLists(items, max_lines) ==
  UNION {[1..k -> {Line(i, q) : i \in items, q \in 1..MaxQty}] : k \in 1..max_lines}

StandardFlows ==
  [f \in FlowNames |->
     IF f = "FLOW-1"
     THEN [exists |-> TRUE, is_active |-> TRUE, flow_steps |-> StandardSteps]
     ELSE NoFlow]

Submitted(d) == [d EXCEPT !.docstatus = 1]

Link(n) == [target_doctype |-> DoctypeOf(n), target_docname |-> n]

(***************************************************************************)
(* Spec: Supplier Quotations against one Submitted RFQ, the quantity       *)
(* ledger tracking them directly against it                                *)
(***************************************************************************)
SQNames == {"SQ-1", "SQ-2"}

SQCandidates ==
  {NewDoc("Request for Quotation", "RFQ-1", "SUP-1", {}, its) :
     its \in LineLists({"ITEM-1"}, MaxLines)}

Init ==
  /\ flows = StandardFlows
  /\ last = NoOp
  /\ rules = NoRules
  /\ quotations = <<>>
  /\ requests = NoRequests
  /\ docs = [n \in Names |->
       IF n = "RFQ-1"
       THEN Submitted(NewDoc("", "", "", {"SUP-1", "SUP-2"}, <<Line("ITEM-1", MaxQty)>>))
       ELSE NoDoc]

SaveSQ == \E n \in SQNames, c \in SQCandidates : Save(n, c)

SubmitSQ == \E n \in SQNames : Submit(n)

CancelSQ == \E n \in SQNames : Cancel(n)

Next == SaveSQ \/ SubmitSQ \/ CancelSQ

Spec == Init /\ [][Next]_vars

\* the non-cancelled documents of doctype tdt that declare (sdt, sn) as source
NonCancelledChildren(store, sdt, sn, tdt) == ChildDocs(store, sdt, sn, tdt, "")

\* C1: for every source S, every doctype T other than Request for Quotation
\* tracked directly against S and every item, the quantities of the
\* non-cancelled T-documents declaring S as source, all lines of a document
\* summed, never total more than S's quantity of the item: validate rejects
\* the document that would make them exceed it
C1_ChildrenWithinSource ==
  \A sn \in Names, tdt \in DoctypeSet \ {"Request for Quotation"} :
    docs[sn].exists =>
      \A k \in 1..Len(docs[sn].items) :
        LET line == docs[sn].items[k]
            children == NonCancelledChildren(docs, DoctypeOf(sn), sn, tdt)
        IN ( /\ k = FirstLine(docs[sn].items, line.item_code)
             /\ \A n \in children :
                  TrackingSource(docs, tdt, docs[n]) = [doctype |-> DoctypeOf(sn), name |-> sn] )
           => QtyOver(docs, children, line.item_code) <= line.qty

\* C3: a Supplier Quotation quoting the RFQ's full quantity of an item
\* passes validation while another non-cancelled Supplier Quotation of the
\* same RFQ quotes the full quantity too
C3_FullQuotationsCoexist ==
  \A n \in SQNames, m \in SQNames, c \in SQCandidates :
    LET rfq == c.procurement_source_name
    IN ( /\ m # n
         /\ docs[m].exists /\ docs[m].docstatus # 2
         /\ docs[m].procurement_source_doctype = "Request for Quotation"
         /\ docs[m].procurement_source_name = rfq
         /\ ~docs[n].exists \/ docs[n].docstatus = 0
         /\ Len(c.items) = 1 /\ Len(docs[m].items) = 1
         /\ docs[m].items[1].item_code = c.items[1].item_code
         /\ FirstLine(docs[rfq].items, c.items[1].item_code) # 0
         /\ c.items[1].qty = docs[rfq].items[FirstLine(docs[rfq].items, c.items[1].item_code)].qty
         /\ docs[m].items[1].qty = c.items[1].qty )
       => ValidateEvent(docs, flows, n, Edited(docs[n], c), ~docs[n].exists).error = ""

(***************************************************************************)
(* SpecRFQ: Requests for Quotation against one Submitted Purchase          *)
(* Requisition                                                             *)
(***************************************************************************)
RFQCandidates ==
  {NewDoc("Purchase Requisition", "PR-1", "", {"SUP-1"}, its) : its \in LineLists(Items, 1)}

InitRFQ ==
  /\ flows = StandardFlows
  /\ last = NoOp
  /\ rules = NoRules
  /\ quotations = <<>>
  /\ requests = NoRequests
  /\ docs = [n \in Names |->
       IF n = "PR-1"
       THEN Submitted(NewDoc("", "", "", {}, <<Line("ITEM-1", 1)>>))
       ELSE NoDoc]

SaveRFQ == \E n \in RfqNames, c \in RFQCandidates : Save(n, c)

SubmitRFQ == \E n \in RfqNames : Submit(n)

CancelRFQ == \E n \in RfqNames : Cancel(n)

NextRFQ == SaveRFQ \/ SubmitRFQ \/ CancelRFQ

SpecRFQ == InitRFQ /\ [][NextRFQ]_vars

\* C5: validation of a Request for Quotation never rejects because of
\* quantity: whatever sibling RFQs exist against the source, an RFQ
\* requesting any quantity of items of the source passes the quantity check
\* and is accepted
C5_RfqQuantityUnchecked ==
  \A n \in RfqNames, c \in RFQCandidates :
    (~docs[n].exists \/ docs[n].docstatus = 0) =>
      LET doc == Edited(docs[n], c)
          is_new == ~docs[n].exists
      IN /\ validate_quantity_limits(docs, n, "Request for Quotation", doc, is_new) = ""
         /\ ItemCodes(doc.items) \subseteq ItemCodes(docs[doc.procurement_source_name].items)
              => ValidateEvent(docs, flows, n, doc, is_new).error = ""

\* both RFQs are non-cancelled against the same Purchase Requisition, each
\* requesting more than it holds, and the second was just saved
C5_Witness ==
  /\ \A n \in RfqNames :
       /\ docs[n].exists /\ docs[n].docstatus # 2
       /\ docs[n].procurement_source_name = "PR-1"
       /\ ItemQty(docs[n].items, "ITEM-1") > docs["PR-1"].items[1].qty
  /\ last.op = "save" /\ last.is_new /\ last.error = ""

(***************************************************************************)
(* SpecFlow: the Procurement Flow is configured while a Supplier Quotation *)
(* is saved with every shape of source pair                                *)
(***************************************************************************)
FlowChain == SubSeq(PROCUREMENT_DOCTYPES, 3, Len(PROCUREMENT_DOCTYPES))

\* step numbers of the rows 1..k: in row order, in reverse row order, and
\* starting from 2
StepNumberings(k) ==
  {[r \in 1..k |-> r], [r \in 1..k |-> k + 1 - r], [r \in 1..k |-> r + 1]}

FlowCandidates ==
  UNION {
    {[exists |-> TRUE, is_active |-> a,
      flow_steps |-> [r \in 1..k |-> Step(num[r], FlowChain[r], rs[r])]] :
       a \in BOOLEAN, num \in StepNumberings(k), rs \in [1..k -> BOOLEAN]} :
    k \in 1..MaxSteps}

SourcePairs ==
  {<<"", "">>, <<"Request for Quotation", "RFQ-1">>, <<"Purchase Requisition", "PR-1">>,
   <<"Request for Quotation", "">>, <<"", "RFQ-1">>}

FlowDocNames == {"SQ-1"}

FlowDocCandidates ==
  {NewDoc(sp[1], sp[2], "SUP-1", {}, <<Line("ITEM-1", q)>>) :
     sp \in SourcePairs, q \in 1..MaxQty}

InitFlow ==
  /\ flows = [f \in FlowNames |-> NoFlow]
  /\ last = NoOp
  /\ rules = NoRules
  /\ quotations = <<>>
  /\ requests = NoRequests
  /\ docs = [n \in Names |->
       CASE n = "PR-1" -> Submitted(NewDoc("", "", "", {}, <<Line("ITEM-1", 1)>>))
         [] n = "RFQ-1" -> Submitted(NewDoc("", "", "", {"SUP-1"}, <<Line("ITEM-1", 1)>>))
         [] OTHER -> NoDoc]

\* the second flow is the standard chain, saved active or inactive
StandardFlowCandidates ==
  {[exists |-> TRUE, is_active |-> a, flow_steps |-> StandardSteps] : a \in BOOLEAN}

SaveFlowDoc ==
  \/ \E c \in FlowCandidates : SaveFlow("FLOW-1", c)
  \/ \E c \in StandardFlowCandidates : SaveFlow("FLOW-2", c)

SaveDoc == \E n \in FlowDocNames, c \in FlowDocCandidates : Save(n, c)

NextFlow == SaveFlowDoc \/ SaveDoc

SpecFlow == InitFlow /\ [][NextFlow]_vars

\* the rows of the active flows
ActiveRows(fl) ==
  UNION {{fl[f].flow_steps[r] : r \in 1..Len(fl[f].flow_steps)} : f \in ActiveFlows(fl)}

\* the doctype is a step of the active flow
IsStep(fl, dt) == \E row \in ActiveRows(fl) : row.doctype_name = dt

\* the doctype's step of the active flow requires a source
StepRequiresSource(fl, dt) ==
  \E row \in ActiveRows(fl) : row.doctype_name = dt /\ row.requires_source

\* the doctypes of the step whose step_no immediately precedes the doctype's
PrecedingDoctypes(fl, dt) ==
  {prev.doctype_name : prev \in
     {p \in ActiveRows(fl) :
        \E row \in ActiveRows(fl) : row.doctype_name = dt /\ p.step_no = row.step_no - 1}}

BothSet(doc) == doc.procurement_source_doctype # "" /\ doc.procurement_source_name # ""

BothAbsent(doc) == doc.procurement_source_doctype = "" /\ doc.procurement_source_name = ""

\* C8: for a document whose step of the active flow requires a source,
\* validate rejects when exactly one of the two source fields is set and
\* accepts when both are absent
C8_BothOrNeither ==
  \A n \in FlowDocNames, c \in FlowDocCandidates :
    LET doc == Edited(docs[n], c)
        error == ValidateEvent(docs, flows, n, doc, ~docs[n].exists).error
    IN StepRequiresSource(flows, DoctypeOf(n)) =>
         /\ (~BothSet(doc) /\ ~BothAbsent(doc)) => error # ""
         /\ BothAbsent(doc) => error = ""

\* the step of the Supplier Quotation requires a source, a quotation
\* without source is stored and the save of a partial pair was just rejected
C8_Witness ==
  /\ StepRequiresSource(flows, "Supplier Quotation")
  /\ docs["SQ-1"].exists /\ BothAbsent(docs["SQ-1"])
  /\ last = [op |-> "save", name |-> "SQ-1", is_new |-> FALSE, error |-> "Both Or Neither"]

\* C9: a document whose step of the active flow requires a source and
\* whose source fields are both set is saved only with the doctype of the
\* step immediately preceding its own, in step_no order, as source doctype
C9_SourceIsPrecedingStep ==
  \A n \in FlowDocNames :
    ( /\ last.op = "save" /\ last.name = n /\ last.error = ""
      /\ StepRequiresSource(flows, DoctypeOf(n))
      /\ BothSet(docs[n]) )
    => docs[n].procurement_source_doctype \in PrecedingDoctypes(flows, DoctypeOf(n))

\* C10: when no flow is active or the document's doctype is not a step of
\* the active flow, validate does not reject the document, whatever its
\* source fields, lines and quantities
C10_PassThrough ==
  (last.op = "save" /\ ~IsStep(flows, DoctypeOf(last.name))) => last.error = ""

\* C10 as amended: when no flow is active or the doctype is not a step of
\* the active flow, the pairing and the doctype of the source fields are
\* not checked, and a document without both source fields set is accepted;
\* one with both set is still judged by the item, quantity and supplier
\* checks against its source
C10_StepOrderSkipped ==
  \A n \in FlowDocNames, c \in FlowDocCandidates :
    LET doc == Edited(docs[n], c)
        error == ValidateEvent(docs, flows, n, doc, ~docs[n].exists).error
    IN ~IsStep(flows, DoctypeOf(n)) =>
         /\ error \notin {"Both Or Neither", "Invalid Source Document"}
         /\ ~BothSet(doc) => error = ""

\* with the Supplier Quotation outside every active flow, a quotation with
\* a source doctype and no source name was just saved
C10_Witness ==
  /\ ~IsStep(flows, "Supplier Quotation")
  /\ last.op = "save" /\ last.name = "SQ-1" /\ last.error = ""
  /\ docs["SQ-1"].exists
  /\ docs["SQ-1"].procurement_source_doctype # ""
  /\ docs["SQ-1"].procurement_source_name = ""

(***************************************************************************)
(* SpecPO: Purchase Orders against the two Supplier Quotations of one RFQ  *)
(***************************************************************************)
PONames == {"PO-1", "PO-2"}

POCandidates ==
  {NewDoc("Supplier Quotation", sq, sup, {}, its) :
     sq \in {"SQ-1", "SQ-2"}, sup \in {"", "SUP-1"}, its \in LineLists({"ITEM-1"}, MaxPOLines)}

InitPO ==
  /\ flows = StandardFlows
  /\ last = NoOp
  /\ rules = NoRules
  /\ quotations = <<>>
  /\ requests = NoRequests
  /\ docs = [n \in Names |->
       CASE n = "RFQ-1" ->
              [Submitted(NewDoc("", "", "", {"SUP-1", "SUP-2"}, <<Line("ITEM-1", MaxQty)>>))
                 EXCEPT !.procurement_links = <<Link("SQ-1"), Link("SQ-2")>>]
         [] n = "SQ-1" ->
              Submitted(NewDoc("Request for Quotation", "RFQ-1", "SUP-1", {}, <<Line("ITEM-1", 1)>>))
         [] n = "SQ-2" ->
              Submitted(NewDoc("Request for Quotation", "RFQ-1", "SUP-2", {}, <<Line("ITEM-1", 1)>>))
         [] OTHER -> NoDoc]

\* each Purchase Order is drawn up against the quotation of one supplier
QuotationOf(n) == IF n = "PO-1" THEN "SQ-1" ELSE "SQ-2"

SavePO ==
  \E n \in PONames, c \in POCandidates :
    c.procurement_source_name = QuotationOf(n) /\ Save(n, c)

SubmitPO == \E n \in PONames : Submit(n)

CancelPO == \E n \in PONames : Cancel(n)

NextPO == SavePO \/ SubmitPO \/ CancelPO

SpecPO == InitPO /\ [][NextPO]_vars

(***************************************************************************)
(* Vocabulary of the claims about Purchase Orders                          *)
(***************************************************************************)
\* the existing Purchase Orders whose Supplier Quotation is sourced from RFQ r
PurchaseOrdersOfRfq(store, r) ==
  {n \in Names :
     /\ DoctypeOf(n) = "Purchase Order"
     /\ store[n].exists
     /\ RfqOfPurchaseOrder(store, "Purchase Order", store[n]) = r}

SubmittedPOs(store, r) == {n \in PurchaseOrdersOfRfq(store, r) : store[n].docstatus = 1}

NonCancelledPOs(store, r) == {n \in PurchaseOrdersOfRfq(store, r) : store[n].docstatus # 2}

\* the store that differs only in the cached quantities of the RFQ lines,
\* which hold the dynamically recomputed totals
CacheSet(its, total) ==
  [k \in 1..Len(its) |->
     [its[k] EXCEPT !.ordered_qty = total[its[k].item_code],
                    !.remaining_qty = its[k].qty - total[its[k].item_code]]]

WithDynamicCache(store) ==
  [n \in Names |->
     IF DoctypeOf(n) = "Request for Quotation"
     THEN [store[n] EXCEPT !.items =
             CacheSet(store[n].items, calculate_rfq_ordered_quantities_dynamic(store, n))]
     ELSE store[n]]

\* C2: the Submitted Purchase Orders of an RFQ's Supplier Quotations never
\* total more than the RFQ's quantity of an item; ordered_qty never exceeds
\* qty and remaining_qty is never negative
C2_SubmittedWithinRfq ==
  \A r \in RfqNames :
    docs[r].exists =>
      \A k \in 1..Len(docs[r].items) :
        LET line == docs[r].items[k]
        IN k = FirstLine(docs[r].items, line.item_code) =>
             /\ QtyOver(docs, SubmittedPOs(docs, r), line.item_code) <= line.qty
             /\ line.ordered_qty <= line.qty
             /\ line.remaining_qty >= 0

\* C6: the consumed quantity the ledger computes while a Purchase Order of
\* an RFQ's Supplier Quotation is validated is the total over every other
\* non-cancelled Purchase Order of that RFQ's Supplier Quotations
C6_LedgerCountsCompetingOrders ==
  \A n \in PONames, c \in POCandidates, i \in Items :
    LET r == RfqOfPurchaseOrder(docs, "Purchase Order", c)
    IN r # "" =>
         ConsumedBreakdown(docs, n, "Purchase Order", c, ~docs[n].exists)[i]
           = QtyOver(docs, NonCancelledPOs(docs, r) \ {n}, i)

\* C7: the verdict on a Purchase Order is decided by the dynamically
\* recomputed consumption and not by the cached ordered_qty: it is the same
\* in the store that differs only in the cached values, these holding the
\* recomputed totals
C7_VerdictIgnoresCache ==
  \A n \in PONames, c \in POCandidates :
    (~docs[n].exists \/ docs[n].docstatus = 0) =>
      (ValidateEvent(docs, flows, n, Edited(docs[n], c), ~docs[n].exists).error = "")
        = (ValidateEvent(WithDynamicCache(docs), flows, n,
                         Edited(docs[n], c), ~docs[n].exists).error = "")

ItemsData ==
  {<<[item_code |-> "ITEM-1", rate |-> 0, qty |-> 0]>>,
   <<[item_code |-> "ITEM-2", rate |-> 1, qty |-> 0]>>}
  \cup {<<[item_code |-> "ITEM-1", rate |-> 1, qty |-> q]>> : q \in 0..MaxQty}

PivotEntries == {[supplier |-> sup, items_data |-> d] : sup \in Suppliers, d \in ItemsData}

\* pivot tables of one supplier or of two different ones, in either order
PivotData ==
  {<<e>> : e \in PivotEntries}
  \cup {d \in {<<e, f>> : e \in PivotEntries, f \in PivotEntries} :
          d[1].supplier # d[2].supplier}

PivotSQCandidates ==
  {NewDoc("Request for Quotation", "RFQ-1", sup, {}, <<Line("ITEM-1", q)>>) :
     sup \in {"", "SUP-1", "SUP-3"}, q \in {1, MaxQty}}

InitPivot ==
  /\ flows = StandardFlows
  /\ last = NoOp
  /\ rules = NoRules
  /\ quotations = <<>>
  /\ requests = NoRequests
  /\ docs = [n \in Names |->
       IF n = "RFQ-1"
       THEN Submitted(NewDoc("", "", "", {"SUP-1", "SUP-2"}, <<Line("ITEM-1", MaxQty)>>))
       ELSE NoDoc]

PivotRFQ == \E d \in PivotData : Pivot("RFQ-1", d)

SavePivotSQ == \E n \in SQNames, c \in PivotSQCandidates : Save(n, c)

SubmitPivotSQ == \E n \in SQNames : Submit(n)

CancelPivotSQ == \E n \in SQNames : Cancel(n)

NextPivot == PivotRFQ \/ SavePivotSQ \/ SubmitPivotSQ \/ CancelPivotSQ

SpecPivot == InitPivot /\ [][NextPivot]_vars

\* the supplier of a document is set and not among those its RFQ lists
Uninvited(store, doc) ==
  /\ doc.procurement_source_doctype = "Request for Quotation"
  /\ DocExists(store, "Request for Quotation", doc.procurement_source_name)
  /\ doc.supplier # ""
  /\ doc.supplier \notin store[doc.procurement_source_name].suppliers

\* C12: a Supplier Quotation sourced from an RFQ with its supplier set is
\* rejected unless the RFQ lists that supplier; the pivot creation reports
\* an error for such a supplier and creates no quotation for it, so no
\* stored quotation has an unlisted supplier
C12_SupplierInvited ==
  /\ \A n \in SQNames, c \in PivotSQCandidates :
       (~docs[n].exists \/ docs[n].docstatus = 0) =>
         (Uninvited(docs, c) =>
            ValidateEvent(docs, flows, n, Edited(docs[n], c), ~docs[n].exists).error # "")
  /\ \A d \in PivotData :
       LET r == create_supplier_quotations_from_pivot(docs, flows, "RFQ-1", d)
       IN Cardinality({n \in SQNames : ~docs[n].exists}) >= Len(d) =>
            /\ \A k \in 1..Len(r.created) : ~Uninvited(r.store, r.store[r.created[k]])
            /\ \A k \in 1..Len(d) :
                 ( /\ d[k].supplier \notin docs["RFQ-1"].suppliers
                   /\ items_with_prices(docs["RFQ-1"].items, d[k].items_data) # <<>> )
                 => \E j \in 1..Len(r.errors) : r.errors[j].supplier = d[k].supplier
  /\ \A n \in SQNames : docs[n].exists => ~Uninvited(docs, docs[n])

\* the pivot creation just made a quotation for a listed supplier and
\* reported the supplier the RFQ does not list
C12_Witness ==
  /\ last.op = "pivot"
  /\ Len(last.created) = 1
  /\ Len(last.errors) = 1
  /\ last.errors[1] = [supplier |-> "SUP-3", error |-> "Invalid Supplier for RFQ"]
  /\ docs[last.created[1]].supplier \in docs["RFQ-1"].suppliers

(***************************************************************************)
(* Claims about item containment                                           *)
(***************************************************************************)
\* C11: validate rejects a document with both source fields set when a
\* line's item code is not among the lines of the declared source, the
\* Request for Quotation included; a document just saved or submitted has
\* its item codes among those of its source
C11_ItemsWithinSource ==
  /\ \A n \in RfqNames, c \in RFQCandidates :
       (~docs[n].exists \/ docs[n].docstatus = 0) =>
         LET doc == Edited(docs[n], c)
         IN ( /\ BothSet(doc)
              /\ ~(ItemCodes(doc.items) \subseteq ItemCodes(docs[doc.procurement_source_name].items)) )
            => ValidateEvent(docs, flows, n, doc, ~docs[n].exists).error # ""
  /\ \A n \in Names :
       ( /\ last.op \in {"save", "submit"} /\ last.name = n /\ last.error = ""
         /\ BothSet(docs[n]) )
       => ItemCodes(docs[n].items) \subseteq ItemCodes(docs[docs[n].procurement_source_name].items)

\* a Request for Quotation with an item of its source is stored and the
\* save of one naming an item the source lacks was just rejected
C11_Witness ==
  /\ \E n \in RfqNames : docs[n].exists /\ BothSet(docs[n])
  /\ last.op = "save" /\ last.name \in RfqNames /\ last.error = "Item Not In Source"

(***************************************************************************)
(* Claims about the supplier of a Purchase Order                           *)
(***************************************************************************)
\* C13: for a Purchase Order sourced from an existing Supplier Quotation,
\* validation sets an unset supplier to the quotation's and rejects a set
\* supplier that differs from it; every stored order of a quotation has the
\* quotation's supplier
C13_SupplierMatchesQuotation ==
  /\ \A n \in PONames, c \in POCandidates :
       ( /\ ~docs[n].exists \/ docs[n].docstatus = 0
         /\ DocExists(docs, "Supplier Quotation", c.procurement_source_name) )
       => LET r == ValidateEvent(docs, flows, n, Edited(docs[n], c), ~docs[n].exists)
              sq == docs[c.procurement_source_name]
          IN /\ (c.supplier # "" /\ c.supplier # sq.supplier) => r.error # ""
             /\ r.error = "" => r.doc.supplier = sq.supplier
  /\ \A n \in PONames :
       ( /\ docs[n].exists
         /\ docs[n].procurement_source_doctype = "Supplier Quotation"
         /\ DocExists(docs, "Supplier Quotation", docs[n].procurement_source_name) )
       => docs[n].supplier = docs[docs[n].procurement_source_name].supplier

\* an order saved without supplier carries its quotation's supplier and
\* its edit to another supplier was just rejected
C13_Witness ==
  /\ docs["PO-2"].exists
  /\ docs["PO-2"].supplier = docs["SQ-2"].supplier
  /\ last = [op |-> "save", name |-> "PO-2", is_new |-> FALSE, error |-> "Supplier Mismatch"]

(***************************************************************************)
(* Specification of the link graph: a Purchase Requisition and two         *)
(* Requests for Quotation drawn from it, each saved, submitted and         *)
(* cancelled; the host's save of the source during a submission may fail   *)
(***************************************************************************)
LinkNames == {"PR-1", "RFQ-1", "RFQ-2"}

LinkCandidates(n) ==
  IF n = "PR-1" THEN {NewDoc("", "", "", {}, <<Line("ITEM-1", MaxQty)>>)}
  ELSE RFQCandidates

InitLinks ==
  /\ flows = StandardFlows
  /\ last = NoOp
  /\ rules = NoRules
  /\ quotations = <<>>
  /\ requests = NoRequests
  /\ docs = [n \in Names |-> NoDoc]

SaveLinks == \E n \in LinkNames : \E c \in LinkCandidates(n) : Save(n, c)

SubmitLinks ==
  \E n \in LinkNames, has_field \in BOOLEAN, save_ok \in BOOLEAN :
     SubmitWith(n, has_field, save_ok)

CancelLinks == \E n \in LinkNames : Cancel(n)

NextLinks == SaveLinks \/ SubmitLinks \/ CancelLinks

SpecLinks == InitLinks /\ [][NextLinks]_vars

(***************************************************************************)
(* Claims about the link graph                                             *)
(***************************************************************************)
\* C14: recording a link that is already recorded changes nothing, and in
\* every reachable state a source holds at most one link to any one target
C14_OneEdgePerPair ==
  /\ \A n \in Names : \A j, k \in 1..Len(docs[n].procurement_links) :
        (/\ docs[n].procurement_links[j].target_doctype
              = docs[n].procurement_links[k].target_doctype
         /\ docs[n].procurement_links[j].target_docname
              = docs[n].procurement_links[k].target_docname) => j = k
  /\ \A s \in Names, t \in Names :
        LET once == create_backward_link(docs, flows, DoctypeOf(s), s,
                                         DoctypeOf(t), t, TRUE, TRUE).store
        IN create_backward_link(once, flows, DoctypeOf(s), s,
                                DoctypeOf(t), t, TRUE, TRUE).store = once

C14_Witness ==
  /\ last.op = "submit" /\ last.error = "" /\ last.name = "RFQ-2"
  /\ docs["PR-1"].procurement_links = <<Link("RFQ-1"), Link("RFQ-2")>>

\* C15: the before-cancel check of a document with forward links rejects,
\* its message lists every linked target under the target's doctype, and a
\* cancellation of such a document leaves it Submitted
C15_LinkedDocumentStays ==
  /\ \A n \in Names :
       (docs[n].exists /\ docs[n].procurement_links # <<>>) =>
          LET r == check_can_cancel(docs[n])
              links == docs[n].procurement_links
          IN /\ r.error # ""
             /\ \A k \in 1..Len(links) :
                  /\ links[k].target_doctype \in DOMAIN r.child_docs
                  /\ \E j \in 1..Len(r.child_docs[links[k].target_doctype]) :
                       r.child_docs[links[k].target_doctype][j] = links[k].target_docname
  /\ (last.op = "cancel" /\ docs[last.name].procurement_links # <<>>) =>
        /\ last.error = "Cancellation Not Allowed"
        /\ docs[last.name].docstatus = 1

C15_Witness ==
  /\ last.op = "cancel" /\ last.name = "PR-1" /\ last.error # ""
  /\ docs["PR-1"].docstatus = 1
  /\ Len(docs["PR-1"].procurement_links) = 2

\* the Submitted documents that declare n as their source
SubmittedChildren(store, n) ==
  {c \in Names :
     /\ store[c].exists /\ store[c].docstatus = 1
     /\ store[c].procurement_source_doctype = DoctypeOf(n)
     /\ store[c].procurement_source_name = n}

\* C16: the before-cancel check of a Submitted document with a Submitted
\* child rejects and names the child, and no Submitted document has a
\* Cancelled source
C16_NoCancelledSource ==
  /\ \A n \in Names :
       (docs[n].exists /\ docs[n].docstatus = 1) =>
          \A c \in SubmittedChildren(docs, n) :
             LET r == check_can_cancel(docs[n])
             IN /\ r.error # ""
                /\ DoctypeOf(c) \in DOMAIN r.child_docs
                /\ \E j \in 1..Len(r.child_docs[DoctypeOf(c)]) :
                     r.child_docs[DoctypeOf(c)][j] = c
  /\ \A n \in Names :
       (docs[n].exists /\ docs[n].docstatus = 2) => SubmittedChildren(docs, n) = {}

\* C17: a submission that passed validation and could not record its link
\* on the source is not rolled back: no hook raises and the target is
\* Submitted
C17_LinkFailureSwallowed ==
  \A n \in LinkNames, has_field \in BOOLEAN, save_ok \in BOOLEAN :
     (/\ docs[n].exists /\ docs[n].docstatus = 0
      /\ docs[n].procurement_source_name # ""
      /\ ValidateEvent(docs, flows, n, docs[n], FALSE).error = "") =>
        LET submitted == [docs[n] EXCEPT !.docstatus = 1]
            e == SubmitEvent([docs EXCEPT ![n] = submitted], flows, n, submitted,
                             has_field, save_ok)
        IN /\ e.error = ""
           /\ e.store[n].docstatus = 1

\* a submission went through and left no link on the source
C17_Witness ==
  /\ last.op = "submit" /\ last.error = "" /\ last.name = "RFQ-1"
  /\ docs["RFQ-1"].docstatus = 1
  /\ docs["PR-1"].exists
  /\ ~HasLink(docs["PR-1"].procurement_links, "Request for Quotation", "RFQ-1")

\* C18: every step keeps the links of every document as they were, in their
\* places, and at most appends to them
C18_LinksAppendOnly ==
  [][\A n \in Names : \A k \in 1..Len(docs[n].procurement_links) :
        /\ k <= Len(docs'[n].procurement_links)
        /\ docs'[n].procurement_links[k] = docs[n].procurement_links[k]]_vars

\* the target of a link was cancelled and the link is still on its source
C18_Witness ==
  /\ last.op = "cancel" /\ last.error = "" /\ last.name = "RFQ-1"
  /\ docs["RFQ-1"].docstatus = 2
  /\ HasLink(docs["PR-1"].procurement_links, "Request for Quotation", "RFQ-1")

(***************************************************************************)
(* Specification of the ordered-quantity cache: a Request for Quotation of *)
(* two items with one Supplier Quotation, a second Request for Quotation   *)
(* beside it, and two Purchase Orders against the quotation; the host's    *)
(* save of the RFQ during a submission may fail                            *)
(***************************************************************************)
OrderedPOCandidates(n) ==
  {NewDoc("Supplier Quotation", "SQ-1", "SUP-1", {}, its) :
     its \in IF n = "PO-1"
             THEN LineLists(Items, 1)
                    \cup {<<Line(i, 1), Line(j, 1)>> : i \in Items, j \in Items}
             ELSE LineLists({"ITEM-1"}, 1)}

InitOrdered ==
  /\ flows = StandardFlows
  /\ last = NoOp
  /\ rules = NoRules
  /\ quotations = <<>>
  /\ requests = NoRequests
  /\ docs = [n \in Names |->
       CASE n = "RFQ-1" ->
              [Submitted(NewDoc("", "", "", {"SUP-1"},
                                <<Line("ITEM-1", MaxQty), Line("ITEM-2", MaxQty)>>))
                 EXCEPT !.procurement_links = <<Link("SQ-1")>>]
         [] n = "RFQ-2" ->
              Submitted(NewDoc("", "", "", {"SUP-1"}, <<Line("ITEM-1", MaxQty)>>))
         [] n = "SQ-1" ->
              Submitted(NewDoc("Request for Quotation", "RFQ-1", "SUP-1", {},
                               <<Line("ITEM-1", MaxQty), Line("ITEM-2", MaxQty)>>))
         [] OTHER -> NoDoc]

SaveOrdered == \E n \in PONames : \E c \in OrderedPOCandidates(n) : Save(n, c)

SubmitOrdered == \E n \in PONames, save_ok \in BOOLEAN : SubmitWith(n, TRUE, save_ok)

CancelOrdered == \E n \in PONames : Cancel(n)

NextOrdered == SaveOrdered \/ SubmitOrdered \/ CancelOrdered

SpecOrdered == InitOrdered /\ [][NextOrdered]_vars

(***************************************************************************)
(* Claims about the ordered-quantity cache                                 *)
(***************************************************************************)
\* the Draft Purchase Orders whose submission passes validation
Submittable(n) ==
  /\ docs[n].exists /\ docs[n].docstatus = 0
  /\ ValidateEvent(docs, flows, n, docs[n], FALSE).error = ""

\* the store after the submit hooks of n, the saves of the host going through
AfterSubmit(n) ==
  LET submitted == [ValidateEvent(docs, flows, n, docs[n], FALSE).doc EXCEPT !.docstatus = 1]
  IN SubmitEvent([docs EXCEPT ![n] = submitted], flows, n, submitted, TRUE, TRUE).store

AfterCancel(store, n) ==
  LET cancelled == [store[n] EXCEPT !.docstatus = 2]
  IN CancelEvent([store EXCEPT ![n] = cancelled], flows, n, cancelled)

Amounts == 0..MaxAmount

RuleCandidates ==
  {Rule(a, f, t, m, p) : a \in BOOLEAN, f \in Amounts, t \in Amounts, m \in {0, 1}, p \in {1, 2}}

InitRules ==
  /\ flows = StandardFlows
  /\ last = NoOp
  /\ rules = NoRules
  /\ quotations = <<>>
  /\ requests = NoRequests
  /\ docs = [n \in Names |-> NoDoc]

SaveRules == \E n \in RuleNames, c \in RuleCandidates : SaveRule(n, c)

ApplyRules == \E a \in Amounts : ApplyRule(a)

NextRules == SaveRules \/ ApplyRules

SpecRules == InitRules /\ [][NextRules]_vars

(***************************************************************************)
(* Claims about the rules                                                  *)
(***************************************************************************)
ActiveRules(store) == {n \in RuleNames : store[n].exists /\ store[n].is_active}

\* the half-open ranges of two rules have an amount in common
Overlap(a, b) == a.amount_from < b.amount_to /\ b.amount_from < a.amount_to

\* C23: no two active rules of a reachable state overlap; the save of an
\* active rule overlapping another active rule is rejected, and the save of
\* a well-formed active rule overlapping none, a shared boundary included,
\* is accepted
C23_ActiveRulesDisjoint ==
  /\ \A n \in ActiveRules(rules), m \in ActiveRules(rules) :
        n # m => ~Overlap(rules[n], rules[m])
  /\ \A n \in RuleNames, c \in RuleCandidates :
        LET others == ActiveRules(rules) \ {n}
            e == RFQSupplierRule_validate(rules, n, c)
        IN /\ (c.is_active /\ \E m \in others : Overlap(c, rules[m])) => e # ""
           /\ (/\ c.is_active /\ c.amount_from < c.amount_to /\ c.min_suppliers >= 1
               /\ \A m \in others : ~Overlap(c, rules[m])) => e = ""

\* two active rules sharing a boundary, the second by the edit of a rule of
\* the store
C23_Witness ==
  /\ last.op = "save_rule" /\ last.error = "" /\ last.name = "RULE-2" /\ ~last.is_new
  /\ rules["RULE-1"].is_active /\ rules["RULE-2"].is_active
  /\ rules["RULE-1"].amount_to = rules["RULE-2"].amount_from

(***************************************************************************)
(* Specification of get_applicable_rule: the function applied to every     *)
(* table of rules the query can read, tables of overlapping active rules   *)
(* included                                                                *)
(***************************************************************************)
StoredRules ==
  {c \in RuleCandidates : c.amount_from < c.amount_to /\ c.min_suppliers >= 1}

InitApplicable ==
  /\ flows = StandardFlows
  /\ last = NoOp
  /\ rules \in [RuleNames -> StoredRules \cup {NoRule}]
  /\ quotations = <<>>
  /\ requests = NoRequests
  /\ docs = [n \in Names |-> NoDoc]

NextApplicable == \E a \in Amounts : ApplyRule(a)

SpecApplicable == InitApplicable /\ [][NextApplicable]_vars

\* C21: when no two active rules overlap, at most one active rule contains
\* an amount, and get_applicable_rule returns that rule, or none when there
\* is no such rule
C21_UniqueApplicableRule ==
  (\A n \in ActiveRules(rules), m \in ActiveRules(rules) :
      n # m => ~Overlap(rules[n], rules[m])) =>
     /\ \A a \in Amounts :
          LET containing == {n \in ActiveRules(rules) :
                               rules[n].amount_from <= a /\ a < rules[n].amount_to}
          IN /\ Cardinality(containing) <= 1
             /\ get_applicable_rule(rules, a)
                  = IF containing = {} THEN {"None"} ELSE containing
     /\ last.op = "get_applicable_rule" =>
          \/ last.name = "None"
          \/ /\ last.name \in ActiveRules(rules)
             /\ rules[last.name].amount_from <= last.total_amount
             /\ last.total_amount < rules[last.name].amount_to

\* the only active rule containing the amount was returned, an inactive rule
\* containing the amount as well
C21_Witness ==
  /\ last.op = "get_applicable_rule" /\ last.name = "RULE-2" /\ last.total_amount = 1
  /\ rules["RULE-1"].exists /\ ~rules["RULE-1"].is_active
  /\ rules["RULE-1"].amount_from <= 1 /\ 1 < rules["RULE-1"].amount_to

\* C22: get_applicable_rule returns none when no active rule has
\* amount_from <= amount < amount_to, and otherwise one of these rules with
\* no rule of a lower priority number among them and, among those of its
\* priority number, none of a lower amount_from
C22_LowestPriorityThenAmount ==
  /\ \A a \in Amounts : \A r \in get_applicable_rule(rules, a) :
        LET containing == {n \in ActiveRules(rules) :
                             rules[n].amount_from <= a /\ a < rules[n].amount_to}
        IN IF containing = {} THEN r = "None"
           ELSE /\ r \in containing
                /\ \A m \in containing :
                     /\ rules[r].priority <= rules[m].priority
                     /\ rules[r].priority = rules[m].priority
                          => rules[r].amount_from <= rules[m].amount_from
  /\ last.op = "get_applicable_rule" => last.name \in get_applicable_rule(rules, last.total_amount)

\* of two active rules meeting at amount 1, the one starting there was
\* returned for 1
C22_Witness ==
  /\ last.op = "get_applicable_rule" /\ last.name = "RULE-2" /\ last.total_amount = 1
  /\ rules["RULE-1"].is_active /\ rules["RULE-2"].is_active
  /\ rules["RULE-1"].amount_to = 1 /\ rules["RULE-2"].amount_from = 1

(***************************************************************************)
(* Claims about the active flow                                            *)
(***************************************************************************)
\* C24: at most one flow of a reachable state is active, and the save of a
\* flow with is_active set is rejected while another flow is active
C24_OneActiveFlow ==
  /\ Cardinality({f \in FlowNames : flows[f].exists /\ flows[f].is_active}) <= 1
  /\ \A f \in FlowNames, c \in FlowCandidates \cup StandardFlowCandidates :
        (c.is_active /\ \E g \in FlowNames \ {f} : flows[g].exists /\ flows[g].is_active)
           => ProcurementFlow_validate(flows, f, c) # ""
  /\ (last.op = "save_flow" /\ last.error = "") =>
        (flows[last.name].is_active =>
           \A g \in FlowNames \ {last.name} : ~(flows[g].exists /\ flows[g].is_active))

\* the activation of a flow of the store was rejected, the other being active
C24_Witness ==
  /\ last.op = "save_flow" /\ last.error = "Another active flow exists" /\ ~last.is_new
  /\ flows["FLOW-1"].exists /\ flows["FLOW-2"].exists
  /\ Cardinality({f \in FlowNames : flows[f].is_active}) = 1

(***************************************************************************)
(* Specification of the supplier comparison: the function applied to the   *)
(* results the query can give for an RFQ with up to three Submitted        *)
(* Supplier Quotations of two suppliers                                    *)
(***************************************************************************)
Rates == 1..MaxRate

Totals == 1..(MaxRate + 1)

RatedLists ==
  {<<RatedLine("ITEM-1", r)>> : r \in Rates}
    \cup {<<RatedLine("ITEM-1", r[1]), RatedLine(i, r[2])>> : r \in Rates \X Rates, i \in Items}

QuoteSets ==
  {<<>>}
    \cup {<<Quote("SQ-1", s, t, l)>> : s \in {"SUP-1", "SUP-2"}, t \in Totals, l \in RatedLists}
    \cup {<<Quote("SQ-1", "SUP-1", t[1], l[1]), Quote("SQ-2", s, t[2], l[2])>> :
            s \in {"SUP-1", "SUP-2"}, t \in Totals \X Totals, l \in RatedLists \X RatedLists}
    \cup {<<Quote("SQ-1", "SUP-1", t[1], <<RatedLine("ITEM-1", r[1])>>),
            Quote("SQ-2", "SUP-1", t[2], <<RatedLine("ITEM-1", r[2])>>),
            Quote("SQ-3", "SUP-2", t[3], <<RatedLine("ITEM-1", r[3])>>)>> :
            t \in Totals \X Totals \X Totals, r \in Rates \X Rates \X Rates}

InitCompare ==
  /\ flows = StandardFlows
  /\ last = NoOp
  /\ rules = NoRules
  /\ quotations \in QuoteSets
  /\ requests = NoRequests
  /\ docs = [n \in Names |-> NoDoc]

NextCompare == Compare("RFQ-1")

SpecCompare == InitCompare /\ [][NextCompare]_vars

(***************************************************************************)
(* Claims about the supplier comparison                                    *)
(***************************************************************************)
\* the rates quoted for an item by the Submitted quotations
RatesQuoted(item_code) ==
  {QuotedLines(quotations)[k].rate :
     k \in {j \in 1..Len(QuotedLines(quotations)) :
              QuotedLines(quotations)[j].item_code = item_code}}

\* C25: for every item of a Submitted quotation, best_rate is the lowest
\* rate quoted for the item and best_supplier is the first supplier, in
\* query order, that quoted that rate
C25_BestRateIsMinimum ==
  (last.op = "comparison" /\ last.error = "") =>
     /\ {last.items_comparison[k].item_code : k \in 1..Len(last.items_comparison)}
          = {QuotedLines(quotations)[k].item_code : k \in 1..Len(QuotedLines(quotations))}
     /\ \A k \in 1..Len(last.items_comparison) :
          LET row == last.items_comparison[k]
              lines == QuotedLines(quotations)
              atbest == {j \in 1..Len(lines) :
                           lines[j].item_code = row.item_code /\ lines[j].rate = row.best_rate}
          IN /\ row.best_rate \in RatesQuoted(row.item_code)
             /\ \A r \in RatesQuoted(row.item_code) : row.best_rate <= r
             /\ \E j \in atbest :
                  /\ lines[j].supplier = row.best_supplier
                  /\ \A i \in atbest : j <= i

\* C26: the suppliers are ranked 1..n, each rank once, no lower rank with a
\* higher total, and winner_by_total is the supplier of rank 1 and the
\* supplier of a Submitted quotation with the lowest grand total
C26_RankedByTotal ==
  (last.op = "comparison" /\ last.error = "") =>
     LET totals == last.supplier_totals
         suppliers == DOMAIN totals
     IN /\ suppliers = {quotations[k].supplier : k \in 1..Len(quotations)}
        /\ {totals[s].rank : s \in suppliers} = 1..Cardinality(suppliers)
        /\ \A s \in suppliers, t \in suppliers :
             totals[s].rank < totals[t].rank => totals[s].total <= totals[t].total
        /\ totals[last.winner_by_total].rank = 1
        /\ \E k \in 1..Len(quotations) :
             /\ quotations[k].supplier = last.winner_by_total
             /\ \A j \in 1..Len(quotations) :
                  quotations[k].grand_total <= quotations[j].grand_total

(***************************************************************************)
(* Claims about the pivot creation                                         *)
(***************************************************************************)
\* the outcome of the supplier of one entry of the last pivot call: the
\* positions of the supplier in created, skipped and errors
CreatedFor(supplier) ==
  {j \in 1..Len(last.created) : docs[last.created[j]].supplier = supplier}

SkippedFor(supplier) == {j \in 1..Len(last.skipped) : last.skipped[j] = supplier}

ErrorsFor(supplier) == {j \in 1..Len(last.errors) : last.errors[j].supplier = supplier}

\* the items an entry prices
ItemsWithRate(entry) ==
  {entry.items_data[k].item_code :
     k \in {j \in 1..Len(entry.items_data) : entry.items_data[j].rate > 0}}

\* every supplier of the matrix has one outcome, and created quotations
\* are Drafts against the RFQ holding the given items, one line each
OutcomePerSupplier(priced(_)) ==
  last.op = "pivot" =>
    /\ Len(last.created) + Len(last.skipped) + Len(last.errors) = Len(last.pivot_data)
    /\ \A k \in 1..Len(last.pivot_data) :
         LET entry == last.pivot_data[k]
         IN /\ Cardinality(CreatedFor(entry.supplier)) + Cardinality(SkippedFor(entry.supplier))
                 + Cardinality(ErrorsFor(entry.supplier)) = 1
            /\ SkippedFor(entry.supplier) # {} <=> priced(entry) = {}
            /\ \A j \in CreatedFor(entry.supplier) :
                 LET sq == docs[last.created[j]]
                 IN /\ sq.exists /\ sq.docstatus = 0
                    /\ sq.procurement_source_name = last.name
                    /\ {sq.items[i].item_code : i \in 1..Len(sq.items)} = priced(entry)
                    /\ Len(sq.items) = Cardinality(priced(entry))

ItemsWithRateOfRfq(entry) ==
  {i \in ItemsWithRate(entry) : FirstLine(docs[last.name].items, i) # 0}

InitRace ==
  /\ InitOrdered

BeginRace == \E n \in PONames : \E c \in OrderedPOCandidates(n) : BeginSubmit(n, c)

FinishRace == \E n \in PONames, save_ok \in BOOLEAN : FinishSubmit(n, save_ok)

CancelRace == \E n \in PONames : Cancel(n)

NextRace == BeginRace \/ FinishRace \/ CancelRace

SpecRace == InitRace /\ [][NextRace]_vars

(***************************************************************************)
(* Claims about concurrent submissions                                     *)
(***************************************************************************)
\* C28: nothing checks the quantities again between the read of a
\* submission and its write: a Purchase Order that passed validation is
\* written as Submitted whatever other requests wrote in between, so two
\* requests that both read before either wrote are both accepted
C28_ValidatedIsWritten ==
  [][\A n \in PONames :
       (requests[n].active /\ ~requests'[n].active) =>
          /\ docs'[n].exists /\ docs'[n].docstatus = 1
          /\ docs'[n].items = requests[n].doc.items
          /\ last'.error = ""]_vars

\* both Purchase Orders are Submitted, the second one validated when the
\* first was not yet written and nothing was ordered, each within the
\* quantity of the RFQ and together beyond it, every save of the RFQ having
\* gone through
C28_Witness ==
  /\ last.op = "submit" /\ last.name = "PO-2" /\ last.error = ""
  /\ ~last.seen["PO-1"].exists
  /\ last.seen["RFQ-1"].items[1].ordered_qty = 0
  /\ docs["PO-1"].docstatus = 1 /\ docs["PO-2"].docstatus = 1
  /\ ItemQty(docs["PO-1"].items, "ITEM-1") <= docs["RFQ-1"].items[1].qty
  /\ ItemQty(docs["PO-2"].items, "ITEM-1") <= docs["RFQ-1"].items[1].qty
  /\ ItemQty(docs["PO-1"].items, "ITEM-1") + ItemQty(docs["PO-2"].items, "ITEM-1")
       > docs["RFQ-1"].items[1].qty
  /\ docs["RFQ-1"].items[1].ordered_qty
       = ItemQty(docs["PO-1"].items, "ITEM-1") + ItemQty(docs["PO-2"].items, "ITEM-1")

(***************************************************************************)
(* SpecSource: under the standard flow, a Material Request and a Purchase  *)
(* Requisition are saved, edited, submitted and cancelled, each naming no  *)
(* source, itself or the other as its source                               *)
(***************************************************************************)
SourceNames == {"MR-1", "PR-1"}

SourceCandidates ==
  {NewDoc(sp[1], sp[2], "", {}, <<Line("ITEM-1", q)>>) :
     sp \in {<<"", "">>, <<"Material Request", "MR-1">>, <<"Purchase Requisition", "PR-1">>},
     q \in 1..MaxQty}

InitSource ==
  /\ flows = StandardFlows
  /\ last = NoOp
  /\ rules = NoRules
  /\ quotations = <<>>
  /\ requests = NoRequests
  /\ docs = [n \in Names |-> NoDoc]

SaveSource == \E n \in SourceNames, c \in SourceCandidates : Save(n, c)

SubmitSource == \E n \in SourceNames : Submit(n)

CancelSource == \E n \in SourceNames : Cancel(n)

NextSource == SaveSource \/ SubmitSource \/ CancelSource

SpecSource == InitSource /\ [][NextSource]_vars

(***************************************************************************)
(* Claims about the graph of sources and links                             *)
(***************************************************************************)
\* p is the declared source of c, or p records a forward link to c
ParentOf(p, c) ==
  /\ docs[p].exists /\ docs[c].exists
  /\ \/ /\ docs[c].procurement_source_name = p
        /\ docs[c].procurement_source_doctype = DoctypeOf(p)
     \/ HasLink(docs[p].procurement_links, DoctypeOf(c), c)

\* the documents reached from the set S in at most k steps from parent to
\* child
RECURSIVE Descendants(_, _)
Descendants(S, k) ==
  IF k = 0 THEN S
  ELSE Descendants(S \cup {c \in Names : \E p \in S : ParentOf(p, c)}, k - 1)

\* C29: the source pointers and the recorded forward links form an acyclic
\* graph: no document is its own ancestor
C29_NoCycle ==
  \A n \in Names :
    n \notin Descendants({c \in Names : ParentOf(n, c)}, Cardinality(Names))

\* C30: a document that was saved or submitted with a source has a
\* Submitted source
C30_SourceIsSubmitted ==
  (/\ last.op \in {"save", "submit"} /\ last.error = ""
   /\ BothSet(docs[last.name])) =>
     /\ DocExists(docs, docs[last.name].procurement_source_doctype,
                  docs[last.name].procurement_source_name)
     /\ docs[docs[last.name].procurement_source_name].docstatus = 1

(***************************************************************************)
(* SpecView: under the standard flow a Material Request, a Purchase        *)
(* Requisition and two Requests for Quotation are saved, edited, submitted *)
(* and cancelled, and the read-only walks are called on them               *)
(***************************************************************************)
ViewNames == {"MR-1", "PR-1", "RFQ-1", "RFQ-2"}

ViewSources(n) ==
  CASE n = "MR-1" -> {<<"", "">>, <<"Material Request", "MR-1">>}
    [] n = "PR-1" -> {<<"Material Request", "MR-1">>}
    [] OTHER -> {<<"Purchase Requisition", "PR-1">>}

ViewCandidates(n) ==
  {NewDoc(sp[1], sp[2], "", {}, <<Line("ITEM-1", 1)>>) : sp \in ViewSources(n)}

InitView == InitSource

SaveView == \E n \in ViewNames : \E c \in ViewCandidates(n) : Save(n, c)

SubmitView == \E n \in ViewNames : Submit(n)

CancelView == \E n \in ViewNames : Cancel(n)

WalkView ==
  \E n \in ViewNames : ViewRoot(n) \/ ViewPath(n) \/ ViewBackward(n) \/ ViewChain(n)

\* the orders in which the database returns the rows of a query
DbOrders ==
  {NameOrder, [k \in 1..Len(NameOrder) |-> NameOrder[Len(NameOrder) + 1 - k]]}

TreeView == \E n \in ViewNames : \E ord \in DbOrders : ViewLinked(n, ord) \/ ViewFlow(n, ord)

NextView == SaveView \/ SubmitView \/ CancelView \/ WalkView \/ TreeView

SpecView == InitView /\ [][NextView]_vars

(***************************************************************************)
(* Claims about the walks                                                  *)
(***************************************************************************)
\* C31: every ancestor walk makes at most 20 hops and terminates, a cycle
\* of source pointers or not
C31_WalksBounded ==
  /\ last.op \in {"find_root_document", "get_path_to_document"} =>
       last.result.iterations <= max_iterations
  /\ last.op = "backward_chain" =>
       last.result.terminates /\ Len(last.result.chain) <= max_iterations
  /\ last.op = "get_document_chain" =>
       last.error # "RecursionError" /\ Len(last.result.backward) <= max_iterations

\* the number of places of the forward part that list the document n
TimesListed(forward, n) ==
  Cardinality({kj \in (1..Len(forward)) \X (1..Cardinality(Names)) :
                 /\ kj[2] <= Len(forward[kj[1]].documents)
                 /\ forward[kj[1]].documents[kj[2]] = n})

\* the documents whose chain of declared sources reaches n in at most k hops
RECURSIVE SourceDescendants(_, _)
SourceDescendants(S, k) ==
  IF k = 0 THEN S
  ELSE SourceDescendants(
         S \cup {c \in Names : /\ docs[c].exists
                               /\ \E p \in S :
                                    /\ docs[c].procurement_source_name = p
                                    /\ docs[c].procurement_source_doctype = DoctypeOf(p)},
         k - 1)

DescendantsOf(n) ==
  SourceDescendants({c \in Names : /\ docs[c].exists
                                   /\ docs[c].procurement_source_name = n
                                   /\ docs[c].procurement_source_doctype = DoctypeOf(n)},
                    Cardinality(Names))

\* C32: no document has two nodes in the tree of the document flow, and the
\* forward part of get_linked_documents_with_counts lists every Draft or
\* Submitted descendant of the document once, under its doctype, and no
\* Cancelled document
C32_EachDocumentOnce ==
  /\ (last.op = "get_document_flow_with_statuses" /\ last.result.terminates) =>
       \A i, j \in 1..Len(last.result.nodes) :
         last.result.nodes[i].name = last.result.nodes[j].name => i = j
  /\ (last.op = "get_linked_documents_with_counts" /\ last.result.terminates) =>
       \A n \in Names :
         /\ (docs[n].exists /\ docs[n].docstatus = 2) => TimesListed(last.result.forward, n) = 0
         /\ (n \in DescendantsOf(last.name) /\ docs[n].docstatus # 2) =>
              /\ TimesListed(last.result.forward, n) = 1
              /\ \A k \in 1..Len(last.result.forward) :
                   (\E j \in 1..Len(last.result.forward[k].documents) :
                      last.result.forward[k].documents[j] = n) =>
                        last.result.forward[k].doctype = DoctypeOf(n)

(***************************************************************************)
(* SpecMissing: the Material Request at the head of a chain was deleted    *)
(* by force after its Purchase Requisition was submitted; Requests for     *)
(* Quotation are made from the requisition and the walks are called        *)
(***************************************************************************)
MissingNames == {"RFQ-1", "RFQ-2"}

WalkedNames == {"PR-1", "RFQ-1", "RFQ-2"}

MissingCandidates ==
  {NewDoc(sp[1], sp[2], "", {}, <<Line("ITEM-1", q)>>) :
     sp \in {<<"", "">>, <<"Purchase Requisition", "PR-1">>}, q \in 1..MaxQty}

InitMissing ==
  /\ flows = StandardFlows
  /\ last = NoOp
  /\ rules = NoRules
  /\ quotations = <<>>
  /\ requests = NoRequests
  /\ docs = [n \in Names |->
       IF n = "PR-1"
       THEN Submitted(NewDoc("Material Request", "MR-1", "", {}, <<Line("ITEM-1", MaxQty)>>))
       ELSE NoDoc]

SaveMissing == \E n \in MissingNames : \E c \in MissingCandidates : Save(n, c)

SubmitMissing == \E n \in MissingNames : Submit(n)

CancelMissing == \E n \in MissingNames : Cancel(n)

WalkMissing ==
  \E n \in WalkedNames :
    \/ ViewRoot(n) \/ ViewPath(n) \/ ViewChain(n)
    \/ \E ord \in DbOrders : ViewLinked(n, ord)

NextMissing == SaveMissing \/ SubmitMissing \/ CancelMissing \/ WalkMissing

SpecMissing == InitMissing /\ [][NextMissing]_vars

\* the declared sources of n from the nearest one on, up to and including
\* the first that does not exist, over at most k hops
RECURSIVE SourcesOf(_, _)
SourcesOf(n, k) ==
  IF k = 0 \/ ~docs[n].exists \/ ~HasSource(docs[n]) THEN <<>>
  ELSE IF DocExists(docs, docs[n].procurement_source_doctype, docs[n].procurement_source_name)
  THEN <<Key(docs[n].procurement_source_doctype, docs[n].procurement_source_name)>>
         \o SourcesOf(docs[n].procurement_source_name, k - 1)
  ELSE <<Key(docs[n].procurement_source_doctype, docs[n].procurement_source_name)>>

MissingAncestor(n) ==
  /\ n \in Names
  /\ docs[n].exists
  /\ SourcesOf(n, Cardinality(Names)) # <<>>
  /\ LET s == SourcesOf(n, Cardinality(Names))
     IN ~DocExists(docs, s[Len(s)][1], s[Len(s)][2])

\* C33: a walk over a chain with an ancestor that does not exist does not
\* raise, and returns the chain as far as the reference to that ancestor
C33_MissingAncestorTruncates ==
  MissingAncestor(last.name) =>
    /\ last.op = "get_document_chain" =>
         /\ last.error = ""
         /\ \A k \in 1..Len(last.result.backward) :
              \E j \in 1..Len(SourcesOf(last.name, Cardinality(Names))) :
                last.result.backward[k] = SourcesOf(last.name, Cardinality(Names))[j]
    /\ last.op = "get_linked_documents_with_counts" =>
         /\ last.result.terminates
         /\ last.result.backward = SourcesOf(last.name, Cardinality(Names))
    /\ last.op = "find_root_document" =>
         \E j \in 1..Len(SourcesOf(last.name, Cardinality(Names))) :
           Key(last.result.doctype, last.result.name)
             = SourcesOf(last.name, Cardinality(Names))[j]
    /\ last.op = "get_path_to_document" =>
         last.result.path \subseteq
           ({Key(DoctypeOf(last.name), last.name)}
              \cup {SourcesOf(last.name, Cardinality(Names))[j] :
                      j \in 1..Len(SourcesOf(last.name, Cardinality(Names)))})

(***************************************************************************)
(* SpecConsumed: Supplier Quotations of one or two lines over two items    *)
(* against one Submitted RFQ                                               *)
(***************************************************************************)
ConsumedCandidates ==
  {NewDoc("Request for Quotation", "RFQ-1", "SUP-1", {}, its) :
     its \in {<<Line(i, q)>> : i \in Items, q \in 1..MaxQty}
             \cup {<<Line("ITEM-1", q), Line(i, 1)>> : i \in Items, q \in 1..MaxQty}}

InitConsumed ==
  /\ flows = StandardFlows
  /\ last = NoOp
  /\ rules = NoRules
  /\ quotations = <<>>
  /\ requests = NoRequests
  /\ docs = [n \in Names |->
       IF n = "RFQ-1"
       THEN Submitted(NewDoc("", "", "", {"SUP-1", "SUP-2"},
                             <<Line("ITEM-1", 2 * MaxQty), Line("ITEM-2", 2 * MaxQty)>>))
       ELSE NoDoc]

SaveConsumed == \E n \in SQNames, c \in ConsumedCandidates : Save(n, c)

SubmitConsumed == \E n \in SQNames : Submit(n)

CancelConsumed == \E n \in SQNames : Cancel(n)

NextConsumed == SaveConsumed \/ SubmitConsumed \/ CancelConsumed

SpecConsumed == InitConsumed /\ [][NextConsumed]_vars

\* the places (document, line) that count for item i: lines of i in the
\* documents of target_doctype that are not Cancelled, declare the source
\* and are not the excluded document
CountedLines(source_doctype, source_name, target_doctype, exclude_doc, i) ==
  {nk \in Names \X (1..(MaxLines + 1)) :
     /\ DoctypeOf(nk[1]) = target_doctype
     /\ docs[nk[1]].exists
     /\ docs[nk[1]].docstatus \in {0, 1}
     /\ docs[nk[1]].procurement_source_doctype = source_doctype
     /\ docs[nk[1]].procurement_source_name = source_name
     /\ nk[1] # exclude_doc
     /\ nk[2] <= Len(docs[nk[1]].items)
     /\ docs[nk[1]].items[nk[2]].item_code = i}

CountedQty(source_doctype, source_name, target_doctype, exclude_doc, i) ==
  LET S == CountedLines(source_doctype, source_name, target_doctype, exclude_doc, i)
  IN SumOver(S, [nk \in S |-> docs[nk[1]].items[nk[2]].qty])

\* C34: for every item the total of get_consumed_quantities_detailed is the
\* sum of the lines of the item over the non-cancelled documents of the
\* target doctype that declare the source, the excluded document left out;
\* the entries of the breakdown sum to the total; get_consumed_quantities
\* returns the same totals
C34_ConsumedIsSumOfLines ==
  \A exclude_doc \in {""} \cup SQNames : \A i \in Items :
    LET detailed == get_consumed_quantities_detailed(
                      docs, "Request for Quotation", "RFQ-1", "Supplier Quotation", exclude_doc)
        documents == ConsumedDocuments(
                       docs, "Request for Quotation", "RFQ-1", "Supplier Quotation", exclude_doc, i)
    IN /\ detailed[i] = CountedQty("Request for Quotation", "RFQ-1", "Supplier Quotation",
                                   exclude_doc, i)
       /\ SumSeq([k \in 1..Len(documents) |-> documents[k].qty]) = detailed[i]
       /\ get_consumed_quantities(docs, "Request for Quotation", "RFQ-1",
                                  "Supplier Quotation", exclude_doc)[i] = detailed[i]

\* one Submitted quotation with two lines of ITEM-1, the other Cancelled,
\* and the total of ITEM-1 that of the two lines of the first
C34_Witness ==
  /\ docs["SQ-1"].exists /\ docs["SQ-1"].docstatus = 1
  /\ Len(docs["SQ-1"].items) = 2
  /\ docs["SQ-1"].items[2].item_code = "ITEM-1"
  /\ docs["SQ-2"].exists /\ docs["SQ-2"].docstatus = 2
  /\ get_consumed_quantities_detailed(
       docs, "Request for Quotation", "RFQ-1", "Supplier Quotation", "")["ITEM-1"]
       = docs["SQ-1"].items[1].qty + 1

(***************************************************************************)
(* Claims about cancelling after the children                              *)
(***************************************************************************)
\* every document that n records a link to is Cancelled
LinkedChildrenCancelled(n) ==
  \A k \in 1..Len(docs[n].procurement_links) :
    LET c == docs[n].procurement_links[k].target_docname
    IN c \in Names /\ docs[c].exists /\ docs[c].docstatus = 2

\* C35: a Submitted document whose linked children are all Cancelled is not
\* refused by check_can_cancel: a cancel of it goes through
C35_CancelAfterChildren ==
  (/\ last.op = "cancel"
   /\ docs[last.name].procurement_links # <<>>
   /\ LinkedChildrenCancelled(last.name)) => last.error = ""

(***************************************************************************)
(* Claims about the cache of ordered quantities and its two recomputations *)
(***************************************************************************)
\* C36: the stored ordered_qty of every RFQ line is the quantity that
\* calculate_rfq_ordered_quantities_dynamic computes for its item
C36_CacheEqualsDynamic ==
  \A r \in RfqNames :
    docs[r].exists =>
      \A k \in 1..Len(docs[r].items) :
        docs[r].items[k].ordered_qty
          = calculate_rfq_ordered_quantities_dynamic(docs, r)[docs[r].items[k].item_code]

\* C38: the cached ordered_qty of every RFQ line is the sum of the item's
\* quantities over the Submitted Purchase Orders made from the quotations of
\* the RFQ; Draft and Cancelled orders add nothing
C38_CacheIsSubmittedTotal ==
  \A r \in RfqNames :
    docs[r].exists =>
      \A k \in 1..Len(docs[r].items) :
        docs[r].items[k].ordered_qty
          = SumOver(SubmittedPOs(docs, r),
                    [n \in SubmittedPOs(docs, r) |->
                       ItemQty(docs[n].items, docs[r].items[k].item_code)])

\* one order Submitted, the other Cancelled, and the cache holding the
\* quantity of the first
C38_Witness ==
  /\ docs["PO-1"].exists /\ docs["PO-1"].docstatus = 1
  /\ docs["PO-2"].exists /\ docs["PO-2"].docstatus = 2
  /\ docs["RFQ-1"].items[1].ordered_qty = ItemQty(docs["PO-1"].items, "ITEM-1")
  /\ docs["RFQ-1"].items[1].ordered_qty > 0

(***************************************************************************)
(* Claims about the first step of a saved flow                             *)
(***************************************************************************)
\* C37: in no saved Procurement Flow does the step with step_no 1 require a
\* source, in whatever order the rows of the steps are
C37_FirstStepHasNoSource ==
  \A f \in FlowNames :
    flows[f].exists =>
      \A r \in 1..Len(flows[f].flow_steps) :
        flows[f].flow_steps[r].step_no = 1 => ~flows[f].flow_steps[r].requires_source

(***************************************************************************)
(* Claims about the quantities reported as available                       *)
(***************************************************************************)
\* C39: a new document with a line of quantity q of an item of its source
\* passes the quantity checks of validate exactly when q is at most the
\* available_qty that get_available_quantities reports for the item
C39_AvailableAgreesWithGate ==
  \A n \in RfqNames, c \in RFQCandidates :
    (/\ ~docs[n].exists
     /\ c.items[1].item_code
          \in DOMAIN get_available_quantities(docs, c.procurement_source_doctype,
                                              c.procurement_source_name,
                                              DoctypeOf(n)).available) =>
      ((validate_quantity_limits(docs, n, DoctypeOf(n), c, TRUE) = "")
         <=> (c.items[1].qty
                <= get_available_quantities(docs, c.procurement_source_doctype,
                                            c.procurement_source_name,
                                            DoctypeOf(n)).available[c.items[1].item_code]
                     .available_qty))

(***************************************************************************)
(* Claims about the tree of the document flow                              *)
(***************************************************************************)
\* the viewed document and the documents its chain of sources names
ViewedAndAncestors(n) ==
  {Key(DoctypeOf(n), n)}
    \cup {SourcesOf(n, Cardinality(Names))[j] : j \in 1..Len(SourcesOf(n, Cardinality(Names)))}

NodeKeys(nodes) == {Key(nodes[k].doctype, nodes[k].name) : k \in 1..Len(nodes)}

\* every node but the root hangs under the node of its declared source
NestedUnderSource(result, root) ==
  \A k \in 1..Len(result.nodes) :
    IF Key(result.nodes[k].doctype, result.nodes[k].name) = Key(root.doctype, root.name)
    THEN result.nodes[k].parent = NoKey
    ELSE /\ result.nodes[k].parent
              = Key(docs[result.nodes[k].name].procurement_source_doctype,
                    docs[result.nodes[k].name].procurement_source_name)
         /\ result.nodes[k].parent \in NodeKeys(result.nodes)

\* the nodes marked is_in_path are the viewed document and its ancestors
PathIsMarked(result, n) ==
  {Key(result.nodes[k].doctype, result.nodes[k].name) :
     k \in {j \in 1..Len(result.nodes) : result.nodes[j].is_in_path}}
    = ViewedAndAncestors(n)

\* C40: in the tree of get_document_flow_with_statuses every node other
\* than the root is a child of the node of its declared source, and the
\* nodes marked is_in_path are exactly the viewed document and its ancestors
C40_TreeFollowsSources ==
  (/\ last.op = "get_document_flow_with_statuses"
   /\ last.result.terminates
   /\ docs[last.name].exists) =>
     /\ NestedUnderSource(last.result,
                          find_root_document(docs, DoctypeOf(last.name), last.name))
     /\ PathIsMarked(last.result, last.name)

(***************************************************************************)
(* SpecTree: no flow is active; a Purchase Requisition, a Request for      *)
(* Quotation and a Supplier Quotation made from it, and a second Request   *)
(* for Quotation made from the quotation or from the requisition           *)
(***************************************************************************)
TreeDocs == {"PR-1", "RFQ-1", "RFQ-2", "SQ-1"}

TreeSources(n) ==
  CASE n = "PR-1" -> {<<"", "">>}
    [] n = "RFQ-2" -> {<<"Supplier Quotation", "SQ-1">>, <<"Purchase Requisition", "PR-1">>}
    [] OTHER -> {<<"Purchase Requisition", "PR-1">>}

TreeCandidates(n) ==
  {NewDoc(sp[1], sp[2], IF n = "SQ-1" THEN "SUP-1" ELSE "", {}, <<Line("ITEM-1", 1)>>) :
     sp \in TreeSources(n)}

InitTree ==
  /\ flows = [f \in FlowNames |-> NoFlow]
  /\ last = NoOp
  /\ rules = NoRules
  /\ quotations = <<>>
  /\ requests = NoRequests
  /\ docs = [n \in Names |-> NoDoc]

SaveTree == \E n \in TreeDocs : \E c \in TreeCandidates(n) : Save(n, c)

SubmitTree == \E n \in TreeDocs : Submit(n)

CancelTree == \E n \in TreeDocs : Cancel(n)

FlowOfTree == \E n \in TreeDocs : \E ord \in DbOrders : ViewFlow(n, ord)

NextTree == SaveTree \/ SubmitTree \/ CancelTree \/ FlowOfTree

SpecTree == InitTree /\ [][NextTree]_vars

================================================================
